---- MODULE Spec2Model ----
(***************************************************************************)
(* A model of the ruschess core: the board, the pseudo-legal move          *)
(* generator, the check-safety filter, check detection, apply_move and the *)
(* FEN codec.  Option<T> is modelled as a sequence of length at most one:  *)
(* None == <<>> and Some(x) == <<x>>.  A Position is its flat u8 index     *)
(* rank*8+file.  A panic (unwrap of None, index out of range) is an        *)
(* explicit outcome of the operation that raises it.                       *)
(***************************************************************************)
EXTENDS Integers, Sequences, FiniteSets, TLC

None == <<>>
Some(x) == <<x>>

White == "White"
Black == "Black"
PieceColors == {White, Black}

\* piece.rs: PieceColor::opposite
opposite(color) == IF color = Black THEN White ELSE Black

\* piece.rs: Piece::new
Piece(kind, color) == [kind |-> kind, color |-> color]

\* position.rs: Position::new, rank, file
Position_new(r, f) == r * 8 + f
rank(p) == p \div 8
file(p) == p % 8

Positions == 0 .. 63

\* board.rs: Board::empty, get, set, find_king
Board_empty == [p \in Positions |-> None]
get(b, p) == b[p]
set(b, p, sq) == [b EXCEPT ![p] = sq]

\* find_map over the squares in index order: the first king of `color`
find_king(b, color) ==
    LET kings == {p \in Positions : b[p] # None /\ b[p][1] = Piece("King", color)} IN
    IF kings = {} THEN None
    ELSE Some(CHOOSE p \in kings : \A q \in kings : p <= q)

(***************************************************************************)
(* Moves (moves.rs: enum Move)                                             *)
(***************************************************************************)
Normal(from, to) == [type |-> "Normal", from |-> from, to |-> to]
Capture(from, to, captured) ==
    [type |-> "Capture", from |-> from, to |-> to, captured |-> captured]
EnPassant(from, to, captured) ==
    [type |-> "EnPassant", from |-> from, to |-> to, captured |-> captured]
DoublePawnPush(from, to, ep) ==
    [type |-> "DoublePawnPush", from |-> from, to |-> to, en_passant |-> ep]
Promotion(from, to, promoted) ==
    [type |-> "Promotion", from |-> from, to |-> to, promoted |-> promoted]
PromotionCapture(from, to, captured, promoted) ==
    [type |-> "PromotionCapture", from |-> from, to |-> to,
     captured |-> captured, promoted |-> promoted]
Castle(from, to, rook_from, rook_to) ==
    [type |-> "Castle", from |-> from, to |-> to,
     rook_from |-> rook_from, rook_to |-> rook_to]

\* moves.rs: PawnMoveInfo::new
PawnMoveInfo(color) ==
    IF color = White
    THEN [color |-> White, start_rank |-> 1, promotion_rank |-> 7,
          push_offset |-> 8, double_push_offset |-> 16]
    ELSE [color |-> Black, start_rank |-> 6, promotion_rank |-> 0,
          push_offset |-> -8, double_push_offset |-> -16]

\* the (i8 as u8) casts of PawnMoveInfo::push and friends
AsU8(n) == n % 256

push(info, position) == AsU8(position + info.push_offset)
double_push(info, position) == AsU8(position + info.double_push_offset)
left_capture(info, position) == AsU8(position + info.push_offset - 1)
right_capture(info, position) == AsU8(position + info.push_offset + 1)
\* a left_en_passant that names the target square instead of the pawn's square
left_en_passant_on_target(info, position) == AsU8(position + info.push_offset - 1)

left_en_passant(info, position) == position - 1
right_en_passant(info, position) == position + 1

(***************************************************************************)
(* Castling rights (state.rs: can_castle, unset_castle)                    *)
(***************************************************************************)
KingSide == "KingSide"
QueenSide == "QueenSide"

castle_mask(color, side) ==
    IF color = White
    THEN (IF side = KingSide THEN 8 ELSE 4)
    ELSE (IF side = KingSide THEN 2 ELSE 1)

\* bit test of a 4-bit word against a one-bit mask
HasBit(word, mask) == (word \div mask) % 2 = 1

can_castle(s, color, side) == HasBit(s.castling_rights, castle_mask(color, side))

unset_castle(rights, color, side) ==
    IF HasBit(rights, castle_mask(color, side))
    THEN rights - castle_mask(color, side)
    ELSE rights

(***************************************************************************)
(* Pseudo-legal move generation (moves.rs)                                 *)
(***************************************************************************)
\* an add_move_if_valid that does not compare colors
add_move_any(target, center, s, color) ==
    IF get(s.board, target) # None
    THEN <<Capture(center, target, get(s.board, target)[1])>>
    ELSE <<Normal(center, target)>>

\* add_move_if_valid: the moves it pushes ...
add_move_if_valid(target, center, s, color) ==
    IF get(s.board, target) # None
    THEN (IF get(s.board, target)[1].color # color
          THEN <<Capture(center, target, get(s.board, target)[1])>>
          ELSE <<>>)
    ELSE <<Normal(center, target)>>

\* a flag that never stops a ray
add_move_never_stops(target, s) == FALSE

\* ... and the flag it returns (true: the ray stops here)
add_move_stops(target, s) == get(s.board, target) # None

\* one `for i in 1..=steps { if add_move_if_valid(center + delta*i) { break } }`
RECURSIVE ray_moves(_, _, _, _, _, _)
ray_moves(center, s, color, delta, i, steps) ==
    IF i > steps THEN <<>>
    ELSE LET target == center + delta * i IN
         add_move_if_valid(target, center, s, color)
         \o (IF add_move_stops(target, s) THEN <<>>
             ELSE ray_moves(center, s, color, delta, i + 1, steps))

Min(a, b) == IF a < b THEN a ELSE b

make_bischop_moves(center, s, color) ==
    LET tl_steps == Min(rank(center), file(center))
        tr_steps == Min(rank(center), 7 - file(center))
        bl_steps == Min(7 - rank(center), file(center))
        br_steps == Min(7 - rank(center), 7 - file(center))
    IN ray_moves(center, s, color, -9, 1, tl_steps)
       \o ray_moves(center, s, color, -7, 1, tr_steps)
       \o ray_moves(center, s, color, 7, 1, bl_steps)
       \o ray_moves(center, s, color, 9, 1, br_steps)

make_rook_moves(center, s, color) ==
    ray_moves(center, s, color, 8, 1, 7 - rank(center))
    \o ray_moves(center, s, color, -8, 1, rank(center))
    \o ray_moves(center, s, color, 1, 1, 7 - file(center))
    \o ray_moves(center, s, color, -1, 1, file(center))

make_queen_moves(center, s, color) ==
    make_bischop_moves(center, s, color) \o make_rook_moves(center, s, color)

\* `if cond { add_move_if_valid(center + delta) }`
offset_move(cond, center, delta, s, color) ==
    IF cond THEN add_move_if_valid(center + delta, center, s, color) ELSE <<>>

\* a knight whose (+1, +2) jump is not validated against the right board edge
make_knight_moves_wrapping(center, s, color) ==
    LET r == rank(center)
        f == file(center)
    IN offset_move(r > 1 /\ f > 0, center, -17, s, color)
       \o offset_move(r > 1 /\ f < 7, center, -15, s, color)
       \o offset_move(r > 0 /\ f > 1, center, -10, s, color)
       \o offset_move(r > 0 /\ f < 6, center, -6, s, color)
       \o offset_move(r < 6 /\ f > 0, center, 15, s, color)
       \o offset_move(r < 6 /\ f < 7, center, 17, s, color)
       \o offset_move(r < 7 /\ f > 1, center, 6, s, color)
       \o offset_move(r < 7, center, 10, s, color)

make_knight_moves(center, s, color) ==
    LET r == rank(center)
        f == file(center)
    IN offset_move(r > 1 /\ f > 0, center, -17, s, color)
       \o offset_move(r > 1 /\ f < 7, center, -15, s, color)
       \o offset_move(r > 0 /\ f > 1, center, -10, s, color)
       \o offset_move(r > 0 /\ f < 6, center, -6, s, color)
       \o offset_move(r < 6 /\ f > 0, center, 15, s, color)
       \o offset_move(r < 6 /\ f < 7, center, 17, s, color)
       \o offset_move(r < 7 /\ f > 1, center, 6, s, color)
       \o offset_move(r < 7 /\ f < 6, center, 10, s, color)

\* a make_king_moves whose sideways steps do not look at the file
make_king_moves_wrapping(center, s, color) ==
    LET r == rank(center)
        f == file(center)
    IN offset_move(f > 0 /\ r > 0, center, -9, s, color)
       \o offset_move(f > 0 /\ r < 7, center, 7, s, color)
       \o offset_move(center > 0, center, -1, s, color)
       \o offset_move(f < 7 /\ r > 0, center, -7, s, color)
       \o offset_move(f < 7 /\ r < 7, center, 9, s, color)
       \o offset_move(center < 63, center, 1, s, color)
       \o offset_move(r > 0, center, -8, s, color)
       \o offset_move(r < 7, center, 8, s, color)

make_king_moves(center, s, color) ==
    LET r == rank(center)
        f == file(center)
    IN offset_move(f > 0 /\ r > 0, center, -9, s, color)
       \o offset_move(f > 0 /\ r < 7, center, 7, s, color)
       \o offset_move(f > 0, center, -1, s, color)
       \o offset_move(f < 7 /\ r > 0, center, -7, s, color)
       \o offset_move(f < 7 /\ r < 7, center, 9, s, color)
       \o offset_move(f < 7, center, 1, s, color)
       \o offset_move(r > 0, center, -8, s, color)
       \o offset_move(r < 7, center, 8, s, color)

\* a make_pawn_promotions that offers the queen only
make_pawn_promotions_queen_only(from, to, color) ==
    << Promotion(from, to, Piece("Queen", color)) >>

make_pawn_promotions(from, to, color) ==
    << Promotion(from, to, Piece("Queen", color)),
       Promotion(from, to, Piece("Rook", color)),
       Promotion(from, to, Piece("Bishop", color)),
       Promotion(from, to, Piece("Knight", color)) >>

make_pawn_promotion_captures(from, to, captured, color) ==
    << PromotionCapture(from, to, captured, Piece("Queen", color)),
       PromotionCapture(from, to, captured, Piece("Rook", color)),
       PromotionCapture(from, to, captured, Piece("Bishop", color)),
       PromotionCapture(from, to, captured, Piece("Knight", color)) >>

\* board.get(push) indexes the 64-square array: a pawn standing on its own
\* promotion rank pushes off the board and the index is out of range
pawn_push_panics(center, info) == push(info, center) \notin Positions

\* a make_pawn_pushes whose double push looks only at the square two ahead
make_pawn_pushes_jumping(center, s, info) ==
    LET push_pos == push(info, center) IN
    (IF rank(center) = info.start_rank
        /\ get(s.board, double_push(info, center)) = None
     THEN <<DoublePawnPush(center, double_push(info, center), push_pos)>>
     ELSE <<>>)
    \o (IF get(s.board, push_pos) = None
        THEN (IF rank(push_pos) = info.promotion_rank
              THEN make_pawn_promotions(center, push_pos, info.color)
              ELSE <<Normal(center, push_pos)>>)
        ELSE <<>>)

make_pawn_pushes(center, s, info) ==
    LET push_pos == push(info, center) IN
    IF get(s.board, push_pos) = None
    THEN (IF rank(center) = info.start_rank
             /\ get(s.board, double_push(info, center)) = None
          THEN <<DoublePawnPush(center, double_push(info, center), push_pos)>>
          ELSE <<>>)
         \o (IF rank(push_pos) = info.promotion_rank
             THEN make_pawn_promotions(center, push_pos, info.color)
             ELSE <<Normal(center, push_pos)>>)
    ELSE <<>>

\* a capture side that records a pawn as the captured piece, whatever stands
\* on the target
pawn_capture_side_recording_pawn(center, s, info, target, ep_captured) ==
    IF get(s.board, target) # None
    THEN (IF get(s.board, target)[1].color # info.color
          THEN (IF rank(target) = info.promotion_rank
                THEN make_pawn_promotion_captures(center, target,
                         Piece("Pawn", opposite(info.color)), info.color)
                ELSE <<Capture(center, target, Piece("Pawn", opposite(info.color)))>>)
          ELSE <<>>)
    ELSE (IF s.en_passant # None /\ s.en_passant[1] = target
          THEN <<EnPassant(center, target, ep_captured)>>
          ELSE <<>>)

\* one side (left or right) of make_pawn_captures
pawn_capture_side(center, s, info, target, ep_captured) ==
    IF get(s.board, target) # None
    THEN (IF get(s.board, target)[1].color # info.color
          THEN (IF rank(target) = info.promotion_rank
                THEN make_pawn_promotion_captures(center, target,
                         get(s.board, target)[1], info.color)
                ELSE <<Capture(center, target, get(s.board, target)[1])>>)
          ELSE <<>>)
    ELSE (IF s.en_passant # None /\ s.en_passant[1] = target
          THEN <<EnPassant(center, target, ep_captured)>>
          ELSE <<>>)

make_pawn_captures(center, s, info) ==
    (IF file(center) > 0
     THEN pawn_capture_side(center, s, info, left_capture(info, center),
                            left_en_passant(info, center))
     ELSE <<>>)
    \o (IF file(center) < 7
        THEN pawn_capture_side(center, s, info, right_capture(info, center),
                               right_en_passant(info, center))
        ELSE <<>>)

make_pawn_moves(center, s, info) ==
    make_pawn_pushes(center, s, info) \o make_pawn_captures(center, s, info)

make_castle_moves(s, color) ==
    LET king == IF color = White THEN Position_new(0, 4) ELSE Position_new(7, 4) IN
    (IF can_castle(s, color, KingSide)
        /\ get(s.board, Position_new(0, 5)) = None
        /\ get(s.board, Position_new(0, 6)) = None
     THEN <<Castle(king, Position_new(0, 6), Position_new(0, 7), Position_new(0, 5))>>
     ELSE <<>>)
    \o (IF can_castle(s, s.turn, QueenSide)
           /\ get(s.board, Position_new(0, 3)) = None
           /\ get(s.board, Position_new(0, 2)) = None
           /\ get(s.board, Position_new(0, 1)) = None
        THEN <<Castle(king, Position_new(0, 2), Position_new(0, 0), Position_new(0, 3))>>
        ELSE <<>>)

get_moves_for_square(square, position, s, color) ==
    IF square = None THEN <<>>
    ELSE IF square[1].color # color THEN <<>>
    ELSE CASE square[1].kind = "Pawn" -> make_pawn_moves(position, s, PawnMoveInfo(color))
           [] square[1].kind = "Knight" -> make_knight_moves(position, s, color)
           [] square[1].kind = "Bishop" -> make_bischop_moves(position, s, color)
           [] square[1].kind = "Rook" -> make_rook_moves(position, s, color)
           [] square[1].kind = "Queen" -> make_queen_moves(position, s, color)
           [] square[1].kind = "King" -> make_king_moves(position, s, color)

\* the moves of the squares lo..hi in index order (the enumerate() loop of
\* get_moves, split in halves)
RECURSIVE get_moves_between(_, _, _, _)
get_moves_between(s, color, lo, hi) ==
    IF lo = hi
    THEN get_moves_for_square(s.board[lo], lo, s, color)
    ELSE get_moves_between(s, color, lo, (lo + hi) \div 2)
         \o get_moves_between(s, color, ((lo + hi) \div 2) + 1, hi)

get_moves(s, color) == get_moves_between(s, color, 0, 63) \o make_castle_moves(s, color)

\* get_moves panics exactly when some pawn of `color` pushes off the board
get_moves_panics(s, color) ==
    \E p \in Positions :
        /\ s.board[p] # None
        /\ s.board[p][1] = Piece("Pawn", color)
        /\ pawn_push_panics(p, PawnMoveInfo(color))

(***************************************************************************)
(* GameState (state.rs)                                                    *)
(***************************************************************************)
GameState_new(b, t, rights, ep, halfmove, fullmove) ==
    [board |-> b, turn |-> t, castling_rights |-> rights, en_passant |-> ep,
     halfmove_clock |-> halfmove, fullmove_number |-> fullmove,
     captured_pieces |-> <<>>]

GameState_empty == GameState_new(Board_empty, White, 0, None, 0, 1)

\* is_in_check: find_king(..).unwrap() panics without a king of state.turn
is_in_check_panics(s) ==
    \/ find_king(s.board, s.turn) = None
    \/ get_moves_panics(s, opposite(s.turn))

\* an is_in_check that compares the origin of the opponent's moves
is_in_check_by_origin(s) ==
    LET king_pos == find_king(s.board, s.turn)[1]
        enemy_moves == get_moves(s, opposite(s.turn))
    IN \E k \in 1 .. Len(enemy_moves) : enemy_moves[k].from = king_pos

is_in_check(s) ==
    LET king_pos == find_king(s.board, s.turn)[1]
        enemy_moves == get_moves(s, opposite(s.turn))
    IN \E k \in 1 .. Len(enemy_moves) : enemy_moves[k].to = king_pos

is_50_move_rule(s) == s.halfmove_clock >= 100

check_castle_rights_waived(rights, pos, piece) ==
    CASE piece.kind = "Rook" ->
            (IF file(pos) = 0 THEN unset_castle(rights, piece.color, QueenSide)
             ELSE IF file(pos) = 7 THEN unset_castle(rights, piece.color, KingSide)
             ELSE rights)
      [] piece.kind = "King" ->
            unset_castle(unset_castle(rights, piece.color, KingSide),
                         piece.color, QueenSide)
      [] OTHER -> rights

\* the unwrap() calls of apply_move
apply_move_panics(s, m) ==
    \/ get(s.board, m.from) = None
    \/ /\ m.type = "EnPassant"
       /\ get(set(set(s.board, m.from, None), m.to, get(s.board, m.from)), m.captured) = None
    \/ /\ m.type = "Castle"
       /\ get(s.board, m.rook_from) = None

\* an apply_start that leaves the en-passant target in place
apply_start_keeping_target(s) ==
    [s EXCEPT !.halfmove_clock = s.halfmove_clock + 1]

\* the two statements in front of the match: tick the clock, clear the target
apply_start(s) ==
    [s EXCEPT !.halfmove_clock = s.halfmove_clock + 1, !.en_passant = None]

\* `board.set(from, None); board.set(to, Some(piece))`
move_piece(b, from, to, piece) == set(set(b, from, None), to, Some(piece))

\* a Normal arm that never resets the clock for a pawn
apply_normal_no_reset(s0, m) ==
    LET piece == get(s0.board, m.from)[1] IN
    [s0 EXCEPT !.board = set(set(s0.board, m.from, None), m.to, Some(piece)),
               !.castling_rights =
                   check_castle_rights_waived(s0.castling_rights, m.from, piece)]

\* the match arms of apply_move; s0 is the state after apply_start
apply_normal(s0, m) ==
    LET piece == get(s0.board, m.from)[1] IN
    [s0 EXCEPT !.board = move_piece(s0.board, m.from, m.to, piece),
               !.halfmove_clock = IF piece.kind = "Pawn" THEN 0 ELSE s0.halfmove_clock,
               !.castling_rights =
                   check_castle_rights_waived(s0.castling_rights, m.from, piece)]

\* a Capture arm that checks the rights of the moved piece only
apply_capture_mover_only(s0, m) ==
    LET piece == get(s0.board, m.from)[1] IN
    [s0 EXCEPT !.board = move_piece(s0.board, m.from, m.to, piece),
               !.captured_pieces = Append(s0.captured_pieces, m.captured),
               !.halfmove_clock = 0,
               !.castling_rights =
                   check_castle_rights_waived(s0.castling_rights, m.from, piece)]

apply_capture(s0, m) ==
    LET piece == get(s0.board, m.from)[1] IN
    [s0 EXCEPT !.board = move_piece(s0.board, m.from, m.to, piece),
               !.captured_pieces = Append(s0.captured_pieces, m.captured),
               !.halfmove_clock = 0,
               !.castling_rights =
                   check_castle_rights_waived(
                       check_castle_rights_waived(s0.castling_rights, m.from, piece),
                       m.to, m.captured)]

apply_promotion(s0, m) ==
    [s0 EXCEPT !.board = move_piece(s0.board, m.from, m.to, m.promoted),
               !.halfmove_clock = 0]

\* a PromotionCapture arm that puts the pawn itself on the last rank
apply_promotion_capture_keeping_pawn(s0, m) ==
    LET piece == get(s0.board, m.from)[1] IN
    [s0 EXCEPT !.board = move_piece(s0.board, m.from, m.to, piece),
               !.captured_pieces = Append(s0.captured_pieces, m.captured),
               !.halfmove_clock = 0,
               !.castling_rights =
                   check_castle_rights_waived(s0.castling_rights, m.to, m.captured)]

apply_promotion_capture(s0, m) ==
    [s0 EXCEPT !.board = move_piece(s0.board, m.from, m.to, m.promoted),
               !.captured_pieces = Append(s0.captured_pieces, m.captured),
               !.halfmove_clock = 0,
               !.castling_rights =
                   check_castle_rights_waived(s0.castling_rights, m.to, m.captured)]

\* an EnPassant arm that logs the piece on the square the pawn moved to
apply_en_passant_logging_target(s0, m) ==
    LET piece == get(s0.board, m.from)[1]
        moved == move_piece(s0.board, m.from, m.to, piece)
    IN [s0 EXCEPT !.board = set(moved, m.captured, None),
                  !.captured_pieces = Append(s0.captured_pieces, get(moved, m.to)[1]),
                  !.halfmove_clock = 0]

apply_en_passant(s0, m) ==
    LET piece == get(s0.board, m.from)[1]
        moved == move_piece(s0.board, m.from, m.to, piece)
    IN [s0 EXCEPT !.board = set(moved, m.captured, None),
                  !.captured_pieces = Append(s0.captured_pieces, get(moved, m.captured)[1]),
                  !.halfmove_clock = 0]

\* a DoublePawnPush arm that also hands the turn over and counts the move
apply_double_pawn_push_handing_turn(s0, m) ==
    LET piece == get(s0.board, m.from)[1] IN
    [s0 EXCEPT !.board = move_piece(s0.board, m.from, m.to, piece),
               !.halfmove_clock = 0,
               !.en_passant = Some(m.en_passant),
               !.turn = opposite(s0.turn),
               !.fullmove_number = s0.fullmove_number + 1]

apply_double_pawn_push(s0, m) ==
    LET piece == get(s0.board, m.from)[1] IN
    [s0 EXCEPT !.board = move_piece(s0.board, m.from, m.to, piece),
               !.halfmove_clock = 0,
               !.en_passant = Some(m.en_passant)]

\* a Castle arm that clears the king-side right only
apply_castle_kingside_only(s0, m) ==
    LET king == get(s0.board, m.from)[1]
        rook == get(s0.board, m.rook_from)[1]
    IN [s0 EXCEPT !.board = move_piece(move_piece(s0.board, m.from, m.to, king),
                                       m.rook_from, m.rook_to, rook),
                  !.castling_rights =
                      unset_castle(s0.castling_rights, king.color, KingSide)]

apply_castle(s0, m) ==
    LET king == get(s0.board, m.from)[1]
        rook == get(s0.board, m.rook_from)[1]
    IN [s0 EXCEPT !.board = move_piece(move_piece(s0.board, m.from, m.to, king),
                                       m.rook_from, m.rook_to, rook),
                  !.castling_rights =
                      unset_castle(unset_castle(s0.castling_rights, king.color, KingSide),
                                   king.color, QueenSide)]

apply_move(s, m) ==
    CASE m.type = "Normal" -> apply_normal(apply_start(s), m)
      [] m.type = "Capture" -> apply_capture(apply_start(s), m)
      [] m.type = "Promotion" -> apply_promotion(apply_start(s), m)
      [] m.type = "PromotionCapture" -> apply_promotion_capture(apply_start(s), m)
      [] m.type = "EnPassant" -> apply_en_passant(apply_start(s), m)
      [] m.type = "DoublePawnPush" -> apply_double_pawn_push(apply_start(s), m)
      [] m.type = "Castle" -> apply_castle(apply_start(s), m)

(***************************************************************************)
(* The check-safety filter (moves.rs: prune_moves_into_check).  The while  *)
(* loop visits the elements of the list it was given one by one: what the  *)
(* loop has kept so far is the prefix moves[0..i] of the vector, what it   *)
(* has not visited yet is the rest, and `i` only ever points at the first  *)
(* unvisited element.  The loop state is therefore                         *)
(*   kept     the elements the loop has kept, in order (moves[0..i])       *)
(*   advanced TRUE when the castle branch has just done `i += 1` and       *)
(*            fallen through: the element now at i goes to the simulation  *)
(*            without passing the top of the loop                          *)
(*   panicked the loop has panicked (unwrap, or moves[i] out of range).    *)
(***************************************************************************)
Panicked == [panicked |-> TRUE, moves |-> <<>>]
Returned(moves) == [panicked |-> FALSE, moves |-> moves]

PruneState(kept, advanced, panicked) ==
    [kept |-> kept, advanced |-> advanced, panicked |-> panicked]
PrunePanic == PruneState(<<>>, FALSE, TRUE)

\* `get_moves(state, state.turn.opposite()).iter().any(|m| m.to() == rook_to)`
square_attacked(s, pos) ==
    LET enemy_moves == get_moves(s, opposite(s.turn)) IN
    \E k \in 1 .. Len(enemy_moves) : enemy_moves[k].to = pos

\* a castle branch that forgets to ask whether the king is in check
castle_refused_unchecked(s, rook_to) == square_attacked(s, rook_to)

\* the condition under which the castle branch removes moves[i]
castle_refused(s, rook_to) == is_in_check(s) \/ square_attacked(s, rook_to)

\* the simulation half of the loop body for the element m at index i:
\* clone, apply m, test the king; remove m or step over it
prune_simulate(st, m, s) ==
    IF apply_move_panics(s, m) THEN PrunePanic
    ELSE IF is_in_check_panics(apply_move(s, m)) THEN PrunePanic
    ELSE IF is_in_check(apply_move(s, m))
         THEN PruneState(st.kept, FALSE, FALSE)
         ELSE PruneState(Append(st.kept, m), FALSE, FALSE)

\* the castle branch for the castle m at index i; is_last: no element follows
\* m, so that after `i += 1` the read of moves[i] is out of range
prune_castle(st, m, is_last, s) ==
    IF is_in_check_panics(s) THEN PrunePanic
    ELSE IF castle_refused(s, m.rook_to)
         THEN PruneState(st.kept, FALSE, FALSE)
         ELSE IF is_last THEN PrunePanic
              ELSE PruneState(Append(st.kept, m), TRUE, FALSE)

\* what the loop does with the k-th element of the list it was given
prune_visit(st, moves, k, s) ==
    IF moves[k].type = "Castle" /\ ~st.advanced
    THEN prune_castle(st, moves[k], k = Len(moves), s)
    ELSE prune_simulate(st, moves[k], s)

\* the visits of the elements lo..hi in order, stopping at a panic
RECURSIVE prune_loop(_, _, _, _, _)
prune_loop(st, moves, lo, hi, s) ==
    IF lo > hi THEN st
    ELSE IF lo = hi THEN prune_visit(st, moves, lo, s)
    ELSE LET first_half == prune_loop(st, moves, lo, (lo + hi) \div 2, s) IN
         IF first_half.panicked THEN first_half
         ELSE prune_loop(first_half, moves, ((lo + hi) \div 2) + 1, hi, s)

prune_moves_into_check(moves, s) ==
    LET final == prune_loop(PruneState(<<>>, FALSE, FALSE), moves, 1, Len(moves), s) IN
    IF final.panicked THEN Panicked ELSE Returned(final.kept)

legal_moves(s) ==
    IF get_moves_panics(s, s.turn) THEN Panicked
    ELSE prune_moves_into_check(get_moves(s, s.turn), s)

(***************************************************************************)
(* The FEN codec (state.rs).  A string is the sequence of its chars; an     *)
(* ASCII char is a one-character string, a char outside ASCII is written   *)
(* by its code point.  str::len counts bytes, str::chars yields chars.     *)
(***************************************************************************)
\* a char that takes two bytes in UTF-8
EAcute == "U+00E9"
TwoByteChars == {EAcute}

\* char::len_utf8
len_utf8(c) == IF c \in TwoByteChars THEN 2 ELSE 1

\* str::len: the length in bytes
str_len(str) == Len(str) + Cardinality({k \in 1 .. Len(str) : len_utf8(str[k]) = 2})

\* str::split_whitespace: the maximal runs of non-blank characters
IsBlank(c) == c \in {" ", "\t", "\n", "\r"}

word_starts(str) ==
    {k \in 1 .. Len(str) : ~IsBlank(str[k]) /\ (k = 1 \/ IsBlank(str[k - 1]))}

word_end(str, k) ==
    CHOOSE e \in k .. Len(str) :
        /\ e = Len(str) \/ IsBlank(str[e + 1])
        /\ \A j \in k .. e : ~IsBlank(str[j])

split_whitespace(str) ==
    LET starts == word_starts(str)
        nth(j) == CHOOSE k \in starts : Cardinality({x \in starts : x < k}) = j - 1
    IN [j \in 1 .. Cardinality(starts) |-> SubSeq(str, nth(j), word_end(str, nth(j)))]

DigitChars == <<"0", "1", "2", "3", "4", "5", "6", "7", "8", "9">>
IsDigit(c) == \E d \in 1 .. 10 : DigitChars[d] = c
\* char::to_digit(10)
to_digit(c) == (CHOOSE d \in 1 .. 10 : DigitChars[d] = c) - 1

\* str::parse::<usize>: decimal digits after an optional '+'; None on error
RECURSIVE parse_digits(_, _, _)
parse_digits(str, k, acc) ==
    IF k > Len(str) THEN Some(acc)
    ELSE IF IsDigit(str[k]) THEN parse_digits(str, k + 1, acc * 10 + to_digit(str[k]))
    ELSE None

parse_usize(str) ==
    IF str = <<>> THEN None
    ELSE IF str[1] = "+"
         THEN (IF Len(str) = 1 THEN None ELSE parse_digits(str, 2, 0))
         ELSE parse_digits(str, 1, 0)

fen_char_to_piece(c) ==
    CASE c = "P" -> Some(Piece("Pawn", White))
      [] c = "N" -> Some(Piece("Knight", White))
      [] c = "B" -> Some(Piece("Bishop", White))
      [] c = "R" -> Some(Piece("Rook", White))
      [] c = "Q" -> Some(Piece("Queen", White))
      [] c = "K" -> Some(Piece("King", White))
      [] c = "p" -> Some(Piece("Pawn", Black))
      [] c = "n" -> Some(Piece("Knight", Black))
      [] c = "b" -> Some(Piece("Bishop", Black))
      [] c = "r" -> Some(Piece("Rook", Black))
      [] c = "q" -> Some(Piece("Queen", Black))
      [] c = "k" -> Some(Piece("King", Black))
      [] OTHER -> None

\* position.rs: TryFrom<&str> for Position; None stands for Err
FileChars == <<"a", "b", "c", "d", "e", "f", "g", "h">>
RankChars == <<"1", "2", "3", "4", "5", "6", "7", "8">>

\* the second chars.next().unwrap() finds no char in a two-byte, one-char text
Position_try_from_panics(str) == str_len(str) = 2 /\ Len(str) < 2

Position_try_from(str) ==
    IF str_len(str) # 2 THEN None
    ELSE IF ~ \E f \in 1 .. 8 : FileChars[f] = str[1] THEN None
    ELSE IF ~ \E r \in 1 .. 8 : RankChars[r] = str[2] THEN None
    ELSE Some(Position_new((CHOOSE r \in 1 .. 8 : RankChars[r] = str[2]) - 1,
                           (CHOOSE f \in 1 .. 8 : FileChars[f] = str[1]) - 1))

\* position.rs: ToString for Position
Position_to_string(p) ==
    << FileChars[(p % 8) + 1], DigitChars[((rank(p) \div 8) + 1) + 1] >>

\* FENToken
Token(t, a, b) == [t |-> t, a |-> a, b |-> b]

LexOk(tokens) == [err |-> "None", tokens |-> tokens, panicked |-> FALSE]
LexErr(e) == [err |-> e, tokens |-> <<>>, panicked |-> FALSE]
\* an unwrap() of None inside lex_fen_str
LexPanic == [err |-> "None", tokens |-> <<>>, panicked |-> TRUE]

\* the `while let Some(c) = board_chars.next()` loop of lex_fen_str
lex_board(chars) ==
    [k \in 1 .. Len(chars) |->
        IF IsDigit(chars[k]) /\ to_digit(chars[k]) >= 1 /\ to_digit(chars[k]) <= 8
        THEN Token("Empty", to_digit(chars[k]), 0)
        ELSE IF chars[k] = "/" THEN Token("EndOfRank", 0, 0)
        ELSE Token("Piece", chars[k], 0)]

lex_fen_str(fen) ==
    LET args == split_whitespace(fen) IN
    IF Len(args) < 1 THEN LexErr("NotEnoughArguments")
    ELSE IF Len(args) < 2 THEN LexErr("NotEnoughArguments")
    ELSE IF str_len(args[2]) # 1 THEN LexErr("InvalidArgument")
    ELSE IF Len(args) < 3 THEN LexErr("NotEnoughArguments")
    ELSE IF Len(args) < 4 THEN LexErr("NotEnoughArguments")
    ELSE IF args[4] # <<"-">> /\ str_len(args[4]) # 2 THEN LexErr("InvalidArgument")
    ELSE IF args[4] # <<"-">> /\ Len(args[4]) < 2 THEN LexPanic
    ELSE IF Len(args) < 5 THEN LexErr("NotEnoughArguments")
    ELSE IF parse_usize(args[5]) = None THEN LexErr("InvalidArgument")
    ELSE IF Len(args) < 6 THEN LexErr("NotEnoughArguments")
    ELSE IF parse_usize(args[6]) = None THEN LexErr("InvalidArgument")
    ELSE LexOk(
        lex_board(args[1])
        \o <<Token("EndOfBoard", 0, 0)>>
        \o <<Token("Turn", args[2][1], 0)>>
        \o (IF args[3] # <<"-">>
            THEN [k \in 1 .. Len(args[3]) |-> Token("Castle", args[3][k], 0)]
            ELSE <<>>)
        \o (IF args[4] # <<"-">>
            THEN <<Token("EnPassant", args[4][1], args[4][2])>>
            ELSE <<>>)
        \o <<Token("HalfmoveClock", parse_usize(args[5])[1], 0)>>
        \o <<Token("FullmoveNumber", parse_usize(args[6])[1], 0)>>)

ParseOk(s) == [err |-> "None", state |-> s, panicked |-> FALSE]
ParseErr(e) == [err |-> e, state |-> GameState_empty, panicked |-> FALSE]
\* from_fen does not return: the lexer has panicked
ParsePanic == [err |-> "None", state |-> GameState_empty, panicked |-> TRUE]

\* bitwise or of a 4-bit word with a one-bit mask
SetBit(word, mask) == IF HasBit(word, mask) THEN word ELSE word + mask

\* the state of the `for token in tokens` loop of parse_fen_tokens: the
\* GameState under construction, the `rank` and `file` cursors, and the error
\* the loop has returned ("None" while it runs)
ParseState(s, r, f, err) == [state |-> s, rank |-> r, file |-> f, err |-> err]
ParseFail(ps, e) == [ps EXCEPT !.err = e]

\* FENToken::Piece(c), written to the square (rank << 3 | file)
parse_piece_mirrored(ps, c) ==
    IF ps.file > 7 THEN ParseFail(ps, "InvalidFileCount")
    ELSE IF fen_char_to_piece(c) = None THEN ParseFail(ps, "InvalidPiece")
    ELSE [ps EXCEPT !.state.board =
                        set(ps.state.board, ps.rank * 8 + (7 - ps.file),
                            fen_char_to_piece(c)),
                    !.file = ps.file + 1]

parse_piece(ps, c) ==
    IF ps.file > 7 THEN ParseFail(ps, "InvalidFileCount")
    ELSE IF fen_char_to_piece(c) = None THEN ParseFail(ps, "InvalidPiece")
    ELSE [ps EXCEPT !.state.board =
                        set(ps.state.board, ps.rank * 8 + ps.file,
                            fen_char_to_piece(c)),
                    !.file = ps.file + 1]

\* FENToken::Empty(n)
parse_empty(ps, n) ==
    IF ps.file + n > 8
    THEN ParseFail([ps EXCEPT !.file = ps.file + n], "InvalidFileCount")
    ELSE [ps EXCEPT !.file = ps.file + n]

\* an EndOfRank arm that carries the file cursor into the next rank
parse_end_of_rank_keeping_file(ps) ==
    IF ps.rank = 0 THEN ParseFail(ps, "InvalidRankCount")
    ELSE [ps EXCEPT !.rank = ps.rank - 1]

\* FENToken::EndOfRank
parse_end_of_rank(ps) ==
    IF ps.rank = 0 THEN ParseFail(ps, "InvalidRankCount")
    ELSE [ps EXCEPT !.rank = ps.rank - 1, !.file = 0]

\* FENToken::EndOfBoard
parse_end_of_board(ps) ==
    IF ps.rank > 0 THEN ParseFail(ps, "InvalidRankCount") ELSE ps

\* FENToken::Turn(c)
parse_turn(ps, c) ==
    IF c = "w" THEN [ps EXCEPT !.state.turn = White]
    ELSE IF c = "b" THEN [ps EXCEPT !.state.turn = Black]
    ELSE ParseFail(ps, "InvalidTurn")

\* FENToken::Castle(c)
parse_castle(ps, c) ==
    IF c \in {"K", "Q", "k", "q"}
    THEN [ps EXCEPT !.state.castling_rights =
             SetBit(ps.state.castling_rights,
                    CASE c = "K" -> 8
                      [] c = "Q" -> 4
                      [] c = "k" -> 2
                      [] c = "q" -> 1)]
    ELSE ParseFail(ps, "InvalidCastle")

\* FENToken::EnPassant(f, r)
parse_en_passant(ps, f, r) ==
    IF Position_try_from(<<f, r>>) = None
    THEN ParseFail(ps, "InvalidPosition")
    ELSE [ps EXCEPT !.state.en_passant = Position_try_from(<<f, r>>)]

\* one iteration of the loop
parse_token(ps, token) ==
    CASE token.t = "Piece" -> parse_piece(ps, token.a)
      [] token.t = "Empty" -> parse_empty(ps, token.a)
      [] token.t = "EndOfRank" -> parse_end_of_rank(ps)
      [] token.t = "EndOfBoard" -> parse_end_of_board(ps)
      [] token.t = "Turn" -> parse_turn(ps, token.a)
      [] token.t = "Castle" -> parse_castle(ps, token.a)
      [] token.t = "EnPassant" -> parse_en_passant(ps, token.a, token.b)
      [] token.t = "HalfmoveClock" -> [ps EXCEPT !.state.halfmove_clock = token.a]
      [] token.t = "FullmoveNumber" -> [ps EXCEPT !.state.fullmove_number = token.a]

\* the iterations for the tokens lo..hi in order, stopping at the first error
RECURSIVE parse_tokens_between(_, _, _, _)
parse_tokens_between(ps, tokens, lo, hi) ==
    IF lo > hi THEN ps
    ELSE IF lo = hi THEN parse_token(ps, tokens[lo])
    ELSE LET first_half == parse_tokens_between(ps, tokens, lo, (lo + hi) \div 2) IN
         IF first_half.err # "None" THEN first_half
         ELSE parse_tokens_between(first_half, tokens, ((lo + hi) \div 2) + 1, hi)

parse_fen_tokens(s, tokens) ==
    LET final == parse_tokens_between(ParseState(s, 7, 0, "None"), tokens, 1, Len(tokens)) IN
    IF final.err # "None" THEN ParseErr(final.err) ELSE ParseOk(final.state)

from_fen(fen) ==
    LET lexed == lex_fen_str(fen) IN
    IF lexed.panicked THEN ParsePanic
    ELSE IF lexed.err # "None" THEN ParseErr(lexed.err)
    ELSE parse_fen_tokens(GameState_empty, lexed.tokens)

(***************************************************************************)
(* Input positions                                                         *)
(***************************************************************************)
\* the standard start position (GameState::default)
\*   "rnbqkbnr/pppppppp/8/8/8/8/PPPPPPPP/RNBQKBNR w KQkq - 0 1"
StartFen ==
    << "r", "n", "b", "q", "k", "b", "n", "r", "/", "p", "p", "p", "p", "p",
       "p", "p", "p", "/", "8", "/", "8", "/", "8", "/", "8", "/", "P", "P",
       "P", "P", "P", "P", "P", "P", "/", "R", "N", "B", "Q", "K", "B", "N",
       "R", " ", "w", " ", "K", "Q", "k", "q", " ", "-", " ", "0", " ", "1" >>

\* test_prune_moves_into_check_prevent_castle_through_check
\*   "3r1r2/8/8/8/8/8/4P3/R3K2R w KQ - 0 0"
CastleThroughCheckFen ==
    << "3", "r", "1", "r", "2", "/", "8", "/", "8", "/", "8", "/", "8", "/",
       "8", "/", "4", "P", "3", "/", "R", "3", "K", "2", "R", " ", "w", " ",
       "K", "Q", " ", "-", " ", "0", " ", "0" >>

\* test_prune_moves_into_check_prevent_castle_out_of_check
\*   "4r3/8/8/8/8/8/8/R3K2R w KQ - 0 0"
CastleOutOfCheckFen ==
    << "4", "r", "3", "/", "8", "/", "8", "/", "8", "/", "8", "/", "8", "/",
       "8", "/", "R", "3", "K", "2", "R", " ", "w", " ", "K", "Q", " ", "-",
       " ", "0", " ", "0" >>

\* both white castles available, g1 attacked by a rook
\*   "1k4r1/8/8/8/8/8/8/R3K2R w KQ - 0 1"
CastleLandFen ==
    << "1", "k", "4", "r", "1", "/", "8", "/", "8", "/", "8", "/", "8", "/",
       "8", "/", "8", "/", "R", "3", "K", "2", "R", " ", "w", " ", "K", "Q",
       " ", "-", " ", "0", " ", "1" >>

\* both white castles available, d1 attacked by a rook
\*   "1k1r4/8/8/8/8/8/8/R3K2R w KQ - 0 1"
CastlePassFen ==
    << "1", "k", "1", "r", "4", "/", "8", "/", "8", "/", "8", "/", "8", "/",
       "8", "/", "8", "/", "R", "3", "K", "2", "R", " ", "w", " ", "K", "Q",
       " ", "-", " ", "0", " ", "1" >>

\* only the white kingside castle available
\*   "1k6/8/8/8/8/8/8/R3K2R w K - 49 30"
CastleKingSideFen ==
    << "1", "k", "6", "/", "8", "/", "8", "/", "8", "/", "8", "/", "8", "/",
       "8", "/", "R", "3", "K", "2", "R", " ", "w", " ", "K", " ", "-", " ",
       "4", "9", " ", "3", "0" >>

\* all four rights, open back ranks, Black to move
\*   "r3k2r/8/8/8/8/8/8/R3K2R b KQkq - 0 1"
CastleBothFen ==
    << "r", "3", "k", "2", "r", "/", "8", "/", "8", "/", "8", "/", "8", "/",
       "8", "/", "8", "/", "R", "3", "K", "2", "R", " ", "b", " ", "K", "Q",
       "k", "q", " ", "-", " ", "0", " ", "1" >>

\* Black queenside blocked on b8, White has the queenside right
\*   "rn2k3/8/8/8/8/8/8/R3K3 w Qk - 0 1"
CastleBlockedFen ==
    << "r", "n", "2", "k", "3", "/", "8", "/", "8", "/", "8", "/", "8", "/",
       "8", "/", "8", "/", "R", "3", "K", "3", " ", "w", " ", "Q", "k", " ",
       "-", " ", "0", " ", "1" >>

\* test_prune_moves_into_check_prevent_en_passant_exposing_capture
\*   "8/8/8/KPp4r/8/8/8/8 w - c6 0 0"
EnPassantPinFen ==
    << "8", "/", "8", "/", "8", "/", "K", "P", "p", "4", "r", "/", "8", "/",
       "8", "/", "8", "/", "8", " ", "w", " ", "-", " ", "c", "6", " ", "0",
       " ", "0" >>

\* white pawn e5, black pawn d5 that has just double-pushed
\*   "4k3/8/8/3pP3/8/8/8/4K3 w - d6 0 1"
EnPassantFen ==
    << "4", "k", "3", "/", "8", "/", "8", "/", "3", "p", "P", "3", "/", "8",
       "/", "8", "/", "8", "/", "4", "K", "3", " ", "w", " ", "-", " ", "d",
       "6", " ", "0", " ", "1" >>

\* test_prune_moves_into_check_prevent_pin_move
\*   "8/8/8/4b3/8/8/1P6/KP6 w - - 0 0"
PinFen ==
    << "8", "/", "8", "/", "8", "/", "4", "b", "3", "/", "8", "/", "8", "/",
       "1", "P", "6", "/", "K", "P", "6", " ", "w", " ", "-", " ", "-", " ",
       "0", " ", "0" >>

\* bare kings and a knight, clock at 98
\*   "4k3/8/8/8/8/8/8/4K1N1 w - - 98 70"
FiftyFen ==
    << "4", "k", "3", "/", "8", "/", "8", "/", "8", "/", "8", "/", "8", "/",
       "8", "/", "4", "K", "1", "N", "1", " ", "w", " ", "-", " ", "-", " ",
       "9", "8", " ", "7", "0" >>

\* a black bishop aims at the h1 rook
\*   "4k3/1b6/8/8/8/8/8/R3K2R b KQ - 3 9"
RookCornerFen ==
    << "4", "k", "3", "/", "1", "b", "6", "/", "8", "/", "8", "/", "8", "/",
       "8", "/", "8", "/", "R", "3", "K", "2", "R", " ", "b", " ", "K", "Q",
       " ", "-", " ", "3", " ", "9" >>

\* a white pawn about to promote, with a capture available
\*   "3n4/4P3/8/8/8/8/k6p/4K3 w - - 0 1"
PromotionFen ==
    << "3", "n", "4", "/", "4", "P", "3", "/", "8", "/", "8", "/", "8", "/",
       "8", "/", "k", "6", "p", "/", "4", "K", "3", " ", "w", " ", "-", " ",
       "-", " ", "0", " ", "1" >>

\* a black pawn that can promote by capturing the h1 rook
\*   "3n4/4P3/8/8/8/8/k5p1/4K2R b K - 0 1"
PromotionCornerFen ==
    << "3", "n", "4", "/", "4", "P", "3", "/", "8", "/", "8", "/", "8", "/",
       "8", "/", "k", "5", "p", "1", "/", "4", "K", "2", "R", " ", "b", " ",
       "K", " ", "-", " ", "0", " ", "1" >>

\* a king that can step into the attack of a pawn, of a knight and of a king
\*   "8/8/8/2n5/1p6/8/3K4/5k2 w - - 0 1"
AttackersFen ==
    << "8", "/", "8", "/", "8", "/", "2", "n", "5", "/", "1", "p", "6",
       "/", "8", "/", "3", "K", "4", "/", "5", "k", "2", " ", "w", " ",
       "-", " ", "-", " ", "0", " ", "1" >>

FenInputs ==
    { StartFen,
      CastleThroughCheckFen,
      CastleOutOfCheckFen,
      CastleLandFen,
      CastlePassFen,
      CastleKingSideFen,
      CastleBothFen,
      CastleBlockedFen,
      EnPassantPinFen,
      EnPassantFen,
      PinFen,
      FiftyFen,
      RookCornerFen,
      PromotionFen,
      PromotionCornerFen,
      AttackersFen }

(***************************************************************************)
(* FEN texts handed to from_fen, field by field                            *)
(***************************************************************************)
\* piece-placement fields of eight ranks with at most eight files each
GoodPlacements ==
    {
      \* "8/8/8/8/8/8/8/8"  test_fen_parser_castle_order_doesnt_matter
        << "8", "/", "8", "/", "8", "/", "8", "/", "8", "/", "8", "/", "8",
           "/", "8" >>,
      \* "///////"  test_fen_parser_empty_board
        << "/", "/", "/", "/", "/", "/", "/" >>,
      \* "rnbqkbnr/pppppppp/8/8/4P/8/PPPP1PPP/RNBQKBNR"  test_fen_parser_firstmove
        << "r", "n", "b", "q", "k", "b", "n", "r", "/", "p", "p", "p", "p",
           "p", "p", "p", "p", "/", "8", "/", "8", "/", "4", "P", "/", "8",
           "/", "P", "P", "P", "P", "1", "P", "P", "P", "/", "R", "N", "B",
           "Q", "K", "B", "N", "R" >>,
      \* "rnbqkbnr/pppppppp/8/8/8/8/PPPPPPPP/RNBQKBNR"  GameState::default
        << "r", "n", "b", "q", "k", "b", "n", "r", "/", "p", "p", "p", "p",
           "p", "p", "p", "p", "/", "8", "/", "8", "/", "8", "/", "8", "/",
           "P", "P", "P", "P", "P", "P", "P", "P", "/", "R", "N", "B", "Q",
           "K", "B", "N", "R" >>,
      \* "p7/1p6/2p5/3p4/4p3/5p2/6p1/"  test_fen_parser_trailing_empty_counter_optional
        << "p", "7", "/", "1", "p", "6", "/", "2", "p", "5", "/", "3", "p",
           "4", "/", "4", "p", "3", "/", "5", "p", "2", "/", "6", "p", "1", "/" >>,
      \* "p7/1p/2p/3p/4p/5p/6p/8"  test_fen_parser_trailing_empty_counter_optional
        << "p", "7", "/", "1", "p", "/", "2", "p", "/", "3", "p", "/", "4",
           "p", "/", "5", "p", "/", "6", "p", "/", "8" >>,
      \* "QqKkBbNn/RrPp4/8/44/1n1N2/3r/7P/R3K2R"  every piece letter, two counts in one rank
        << "Q", "q", "K", "k", "B", "b", "N", "n", "/", "R", "r", "P", "p",
           "4", "/", "8", "/", "4", "4", "/", "1", "n", "1", "N", "2", "/",
           "3", "r", "/", "7", "P", "/", "R", "3", "K", "2", "R" >>,
      \* "4k3/8/8/3pP3/8/8/8/4K3"
        << "4", "k", "3", "/", "8", "/", "8", "/", "3", "p", "P", "3", "/",
           "8", "/", "8", "/", "8", "/", "4", "K", "3" >>
    }

\* piece-placement fields with a wrong rank count, an overlong rank or a
\* character that is no piece letter
BadPlacements ==
    {
      \* "8/8/8/8/8/8/8/8/8"  nine ranks
        << "8", "/", "8", "/", "8", "/", "8", "/", "8", "/", "8", "/", "8",
           "/", "8", "/", "8" >>,
      \* "8/8/8/8/8/8/8/8/"  a ninth, empty rank
        << "8", "/", "8", "/", "8", "/", "8", "/", "8", "/", "8", "/", "8",
           "/", "8", "/" >>,
      \* "rnbqkbnr/pppppppp/8/8/4P/8/8/PPPP1PPP/RNBQKBNR"  test_fen_parser_too_many_ranks
        << "r", "n", "b", "q", "k", "b", "n", "r", "/", "p", "p", "p", "p",
           "p", "p", "p", "p", "/", "8", "/", "8", "/", "4", "P", "/", "8",
           "/", "8", "/", "P", "P", "P", "P", "1", "P", "P", "P", "/", "R",
           "N", "B", "Q", "K", "B", "N", "R" >>,
      \* "rnbqkbnr/pppppppp/8/4P/8/PPPP1PPP/RNBQKBNR"  test_fen_parser_too_few_ranks
        << "r", "n", "b", "q", "k", "b", "n", "r", "/", "p", "p", "p", "p",
           "p", "p", "p", "p", "/", "8", "/", "4", "P", "/", "8", "/", "P",
           "P", "P", "P", "1", "P", "P", "P", "/", "R", "N", "B", "Q", "K",
           "B", "N", "R" >>,
      \* "8/8/8/8/8/8/8"  seven ranks
        << "8", "/", "8", "/", "8", "/", "8", "/", "8", "/", "8", "/", "8" >>,
      \* "8"  one rank
        << "8" >>,
      \* "k7"  one rank
        << "k", "7" >>,
      \* "rnbqkbnr/pppppppp/8/8/4P/88/PPPP1PPP/RNBQKBNR"  test_fen_parser_too_many_files
        << "r", "n", "b", "q", "k", "b", "n", "r", "/", "p", "p", "p", "p",
           "p", "p", "p", "p", "/", "8", "/", "8", "/", "4", "P", "/", "8",
           "8", "/", "P", "P", "P", "P", "1", "P", "P", "P", "/", "R", "N",
           "B", "Q", "K", "B", "N", "R" >>,
      \* "rnbqkbnr/ppppppppp/8/8/4P/8/PPPP1PPP/RNBQKBNR"  test_fen_parser_too_many_files
        << "r", "n", "b", "q", "k", "b", "n", "r", "/", "p", "p", "p", "p",
           "p", "p", "p", "p", "p", "/", "8", "/", "8", "/", "4", "P", "/",
           "8", "/", "P", "P", "P", "P", "1", "P", "P", "P", "/", "R", "N",
           "B", "Q", "K", "B", "N", "R" >>,
      \* "8/8/8/8/8/8/8/7pp"  nine files, the last a piece
        << "8", "/", "8", "/", "8", "/", "8", "/", "8", "/", "8", "/", "8",
           "/", "7", "p", "p" >>,
      \* "8/8/8/8/8/8/8/p8"  nine files, the last a count
        << "8", "/", "8", "/", "8", "/", "8", "/", "8", "/", "8", "/", "8",
           "/", "p", "8" >>,
      \* "8/8/8/8/8/8/8/8p"  nine files, a piece after a full count
        << "8", "/", "8", "/", "8", "/", "8", "/", "8", "/", "8", "/", "8",
           "/", "8", "p" >>,
      \* "45/8/8/8/8/8/8/8"  nine files in two counts
        << "4", "5", "/", "8", "/", "8", "/", "8", "/", "8", "/", "8", "/",
           "8", "/", "8" >>,
      \* "8/8/8/8/8/8/8/8/ppppppppp"  a ninth rank of nine files
        << "8", "/", "8", "/", "8", "/", "8", "/", "8", "/", "8", "/", "8",
           "/", "8", "/", "p", "p", "p", "p", "p", "p", "p", "p", "p" >>,
      \* "ppppppppp/8/8"  nine files and three ranks
        << "p", "p", "p", "p", "p", "p", "p", "p", "p", "/", "8", "/", "8" >>,
      \* "xnbqkbnr/pppppppp/8/8/4P/8/PPPP1PPP/RNBQKBNR"  test_fen_parser_err_invalid_piece
        << "x", "n", "b", "q", "k", "b", "n", "r", "/", "p", "p", "p", "p",
           "p", "p", "p", "p", "/", "8", "/", "8", "/", "4", "P", "/", "8",
           "/", "P", "P", "P", "P", "1", "P", "P", "P", "/", "R", "N", "B",
           "Q", "K", "B", "N", "R" >>,
      \* "8/8/8/8/8/8/8/9"  a count of nine
        << "8", "/", "8", "/", "8", "/", "8", "/", "8", "/", "8", "/", "8",
           "/", "9" >>,
      \* "8/8/8/8/8/8/8/08"  a count of zero
        << "8", "/", "8", "/", "8", "/", "8", "/", "8", "/", "8", "/", "8",
           "/", "0", "8" >>,
      \* "8/8/8/8/8/8/8/4-3"  a dash
        << "8", "/", "8", "/", "8", "/", "8", "/", "8", "/", "8", "/", "8",
           "/", "4", "-", "3" >>
    }

\* side-to-move fields
TurnFields ==
    {
      \* "w"
        << "w" >>,
      \* "b"
        << "b" >>,
      \* "x"  test_fen_parser_err_invalid_turn
        << "x" >>,
      \* "bb"  test_fen_lexer_err_turn_too_many_chars
        << "b", "b" >>,
      \* "W"
        << "W" >>,
      \* "-"
        << "-" >>,
      \* "<U+00E9>"  one char of two bytes
        << EAcute >>
    }

\* castling fields
CastlingFields ==
    {
      \* "-"
        << "-" >>,
      \* "KQkq"  test_fen_parser_castle_order_doesnt_matter
        << "K", "Q", "k", "q" >>,
      \* "QKqk"  test_fen_parser_castle_order_doesnt_matter
        << "Q", "K", "q", "k" >>,
      \* "K"
        << "K" >>,
      \* "q"
        << "q" >>,
      \* "Qk"
        << "Q", "k" >>,
      \* "KK"
        << "K", "K" >>,
      \* "XQkq"  test_fen_parser_err_invalid_castle
        << "X", "Q", "k", "q" >>,
      \* "-Qkq"  test_fen_parser_err_invalid_castle
        << "-", "Q", "k", "q" >>,
      \* "K-"
        << "K", "-" >>,
      \* "kqx"
        << "k", "q", "x" >>
    }

\* en-passant fields
EnPassantFields ==
    {
      \* "-"
        << "-" >>,
      \* "e3"  test_fen_parser_firstmove
        << "e", "3" >>,
      \* "a1"
        << "a", "1" >>,
      \* "h8"
        << "h", "8" >>,
      \* "d6"
        << "d", "6" >>,
      \* "x3"  test_fen_parser_err_invalid_en_passant
        << "x", "3" >>,
      \* "e9"  test_fen_parser_err_invalid_en_passant
        << "e", "9" >>,
      \* "e0"  test_fen_parser_err_invalid_en_passant
        << "e", "0" >>,
      \* "30"  test_fen_parser_err_invalid_en_passant
        << "3", "0" >>,
      \* "ea"  test_fen_parser_err_invalid_en_passant
        << "e", "a" >>,
      \* "e33"  test_fen_lexer_err_en_passant_wrong_length
        << "e", "3", "3" >>,
      \* "e"
        << "e" >>,
      \* "E3"
        << "E", "3" >>,
      \* "<U+00E9>"  one char of two bytes
        << EAcute >>,
      \* "<U+00E9>3"  two chars of three bytes
        << EAcute, "3" >>
    }

\* halfmove-clock and fullmove-number fields
ClockFields ==
    {
      \* "0"
        << "0" >>,
      \* "1"
        << "1" >>,
      \* "7"
        << "7" >>,
      \* "49"
        << "4", "9" >>,
      \* "100"
        << "1", "0", "0" >>,
      \* "+5"
        << "+", "5" >>,
      \* "-1"  test_fen_lexer_err_en_passant_invalid_move_numbers
        << "-", "1" >>,
      \* "a"  test_fen_lexer_err_en_passant_invalid_move_numbers
        << "a" >>,
      \* "1a"
        << "1", "a" >>,
      \* "+"
        << "+" >>
    }

\* texts with fewer or more than six fields, or with other blanks
WholeTexts ==
    {
      \* ""  test_fen_lexer_err_empty_string
        << >>,
      \* "   "  blanks only
        << " ", " ", " " >>,
      \* "8/8/8/8/8/8/8/8"  one field
        << "8", "/", "8", "/", "8", "/", "8", "/", "8", "/", "8", "/", "8",
           "/", "8" >>,
      \* "8/8/8/8/8/8/8/8 w"  two fields
        << "8", "/", "8", "/", "8", "/", "8", "/", "8", "/", "8", "/", "8",
           "/", "8", " ", "w" >>,
      \* "8/8/8/8/8/8/8/8 w -"  three fields
        << "8", "/", "8", "/", "8", "/", "8", "/", "8", "/", "8", "/", "8",
           "/", "8", " ", "w", " ", "-" >>,
      \* "8/8/8/8/8/8/8/8 w - -"  four fields
        << "8", "/", "8", "/", "8", "/", "8", "/", "8", "/", "8", "/", "8",
           "/", "8", " ", "w", " ", "-", " ", "-" >>,
      \* "rnbqkbnr/pppppppp/8/8/4P/8/PPPP1PPP/RNBQKBNR b KQkq e3 0"  test_fen_lexer_err_not_enough_args
        << "r", "n", "b", "q", "k", "b", "n", "r", "/", "p", "p", "p", "p",
           "p", "p", "p", "p", "/", "8", "/", "8", "/", "4", "P", "/", "8",
           "/", "P", "P", "P", "P", "1", "P", "P", "P", "/", "R", "N", "B",
           "Q", "K", "B", "N", "R", " ", "b", " ", "K", "Q", "k", "q", " ",
           "e", "3", " ", "0" >>,
      \* "8/8/8 w - - 0"  three ranks and five fields
        << "8", "/", "8", "/", "8", " ", "w", " ", "-", " ", "-", " ", "0" >>,
      \* "  8/8/8/8/8/8/8/8  b<TAB>KQ   a1 3  9 "  blanks around the fields
        << " ", " ", "8", "/", "8", "/", "8", "/", "8", "/", "8", "/", "8",
           "/", "8", "/", "8", " ", " ", "b", "\t", "K", "Q", " ", " ", " ",
           "a", "1", " ", "3", " ", " ", "9", " " >>,
      \* "8/8/8/8/8/8/8/8 w - - 0 1 moves"  a seventh field
        << "8", "/", "8", "/", "8", "/", "8", "/", "8", "/", "8", "/", "8",
           "/", "8", " ", "w", " ", "-", " ", "-", " ", "0", " ", "1", " ",
           "m", "o", "v", "e", "s" >>
    }

\* the six fields joined by single blanks
FenOf(placement, turn_field, castling, ep, halfmove, fullmove) ==
    placement \o <<" ">> \o turn_field \o <<" ">> \o castling \o <<" ">> \o ep
        \o <<" ">> \o halfmove \o <<" ">> \o fullmove

BasePlacement == << "8", "/", "8", "/", "8", "/", "8", "/", "8", "/", "8", "/", "8", "/", "8" >>

\* the texts from_fen is called with: one field varies at a time, and the
\* well-formed placements are combined with the well-formed other fields
FenTexts ==
    WholeTexts
    \cup {FenOf(p, <<"w">>, <<"-">>, <<"-">>, <<"0">>, <<"1">>) : p \in BadPlacements}
    \cup {FenOf(BasePlacement, t, <<"-">>, <<"-">>, <<"0">>, <<"0">>) : t \in TurnFields}
    \cup {FenOf(BasePlacement, <<"w">>, c, <<"-">>, <<"0">>, <<"0">>) : c \in CastlingFields}
    \cup {FenOf(BasePlacement, <<"w">>, <<"-">>, e, <<"0">>, <<"0">>) : e \in EnPassantFields}
    \cup {FenOf(p, <<"w">>, <<"-">>, <<EAcute>>, <<"0">>, <<"1">>) :
              p \in {<<"8">>, <<"p", "p", "p", "p", "p", "p", "p", "p", "p">>}}
    \cup {FenOf(BasePlacement, <<"b">>, <<"-">>, <<"-">>, h, <<"1">>) : h \in ClockFields}
    \cup {FenOf(BasePlacement, <<"b">>, <<"-">>, <<"-">>, <<"0">>, f) : f \in ClockFields}
    \cup {FenOf(p, t, c, e, <<"4", "9">>, <<"3", "0">>) :
              p \in GoodPlacements, t \in {<<"w">>, <<"b">>},
              c \in {<<"-">>, <<"K", "Q", "k", "q">>, <<"Q", "k">>},
              e \in {<<"-">>, <<"e", "3">>}}

(***************************************************************************)
(* The state machine: a caller parses a FEN, then repeatedly asks for the  *)
(* legal moves, applies one of them and hands the turn to the other side.  *)
(***************************************************************************)
\* bound on the number of apply_move calls of one behaviour
MaxPlies == 2

VARIABLES
    fen,              \* the text handed to from_fen
    fen_error,        \* "None", or the FENParserError variant from_fen returned
    board, turn, castling_rights, en_passant,
    halfmove_clock, fullmove_number, captured_pieces,   \* the GameState
    pc,               \* the caller's position: "idle", "listed", "applied"
    moves,            \* the list legal_moves last returned
    last,             \* the move last handed to apply_move (an Option)
    pre,              \* the GameState that apply_move call started from (an Option)
    plies,            \* number of apply_move calls so far
    panicked,         \* the program has panicked
    position,         \* a Position under conversion (an Option)
    name,             \* the String its to_string returned (an Option)
    back              \* what Position::try_from made of that String (an Option)

vars == << fen, fen_error, board, turn, castling_rights, en_passant,
           halfmove_clock, fullmove_number, captured_pieces,
           pc, moves, last, pre, plies, panicked, position, name, back >>

\* the GameState the variables hold
State ==
    [board |-> board, turn |-> turn, castling_rights |-> castling_rights,
     en_passant |-> en_passant, halfmove_clock |-> halfmove_clock,
     fullmove_number |-> fullmove_number, captured_pieces |-> captured_pieces]

\* the variables take the fields of GameState s
StateBecomes(s) ==
    /\ board' = s.board
    /\ turn' = s.turn
    /\ castling_rights' = s.castling_rights
    /\ en_passant' = s.en_passant
    /\ halfmove_clock' = s.halfmove_clock
    /\ fullmove_number' = s.fullmove_number
    /\ captured_pieces' = s.captured_pieces

gs_vars == << board, turn, castling_rights, en_passant,
              halfmove_clock, fullmove_number, captured_pieces >>

conv_vars == << position, name, back >>

\* no Position is under conversion
NoConversion == position = None /\ name = None /\ back = None

Init ==
    /\ fen \in FenInputs
    /\ fen_error = from_fen(fen).err
    /\ board = from_fen(fen).state.board
    /\ turn = from_fen(fen).state.turn
    /\ castling_rights = from_fen(fen).state.castling_rights
    /\ en_passant = from_fen(fen).state.en_passant
    /\ halfmove_clock = from_fen(fen).state.halfmove_clock
    /\ fullmove_number = from_fen(fen).state.fullmove_number
    /\ captured_pieces = from_fen(fen).state.captured_pieces
    /\ pc = "idle"
    /\ moves = <<>>
    /\ last = None
    /\ pre = None
    /\ plies = 0
    /\ panicked = FALSE
    /\ NoConversion

\* GameState::legal_moves
LegalMoves ==
    /\ ~panicked
    /\ fen_error = "None"
    /\ pc = "idle"
    /\ plies < MaxPlies
    /\ LET r == legal_moves(State) IN
       IF r.panicked
       THEN /\ panicked' = TRUE
            /\ UNCHANGED << pc, moves >>
       ELSE /\ moves' = r.moves
            /\ pc' = "listed"
            /\ UNCHANGED panicked
    /\ UNCHANGED << fen, fen_error, gs_vars, last, pre, plies, conv_vars >>

\* GameState::apply_move on the k-th listed move
ApplyMove(k) ==
    /\ ~panicked
    /\ pc = "listed"
    /\ k \in 1 .. Len(moves)
    /\ IF apply_move_panics(State, moves[k])
       THEN /\ panicked' = TRUE
            /\ UNCHANGED << gs_vars, pc, moves, last, pre, plies >>
       ELSE /\ StateBecomes(apply_move(State, moves[k]))
            /\ last' = Some(moves[k])
            /\ pre' = Some(State)
            /\ moves' = <<>>
            /\ pc' = "applied"
            /\ plies' = plies + 1
            /\ UNCHANGED panicked
    /\ UNCHANGED << fen, fen_error, conv_vars >>

\* the caller hands the turn to the other color (apply_move leaves `turn` alone)
HandTurn ==
    /\ ~panicked
    /\ pc = "applied"
    /\ turn' = opposite(turn)
    /\ pc' = "idle"
    /\ UNCHANGED << fen, fen_error, board, castling_rights, en_passant,
                    halfmove_clock, fullmove_number, captured_pieces,
                    moves, last, pre, plies, panicked, conv_vars >>

Next ==
    \/ LegalMoves
    \/ \E k \in 1 .. 256 : ApplyMove(k)
    \/ HandTurn

Spec == Init /\ [][Next]_vars

(***************************************************************************)
(* The FEN codec on its own: a caller hands a text to GameState::from_fen. *)
(***************************************************************************)
InitFen ==
    /\ fen \in FenTexts
    /\ fen_error = "None"
    /\ board = GameState_empty.board
    /\ turn = GameState_empty.turn
    /\ castling_rights = GameState_empty.castling_rights
    /\ en_passant = GameState_empty.en_passant
    /\ halfmove_clock = GameState_empty.halfmove_clock
    /\ fullmove_number = GameState_empty.fullmove_number
    /\ captured_pieces = GameState_empty.captured_pieces
    /\ pc = "text"
    /\ moves = <<>>
    /\ last = None
    /\ pre = None
    /\ plies = 0
    /\ panicked = FALSE
    /\ NoConversion

\* GameState::from_fen: Ok(state), Err(error), or a panic inside the lexer
FromFen ==
    /\ pc = "text"
    /\ LET r == from_fen(fen) IN
       /\ panicked' = r.panicked
       /\ fen_error' = r.err
       /\ StateBecomes(r.state)
       /\ pc' = IF r.panicked \/ r.err # "None" THEN "rejected" ELSE "idle"
    /\ UNCHANGED << fen, moves, last, pre, plies, conv_vars >>

NextFen == FromFen

SpecFen == InitFen /\ [][NextFen]_vars

(***************************************************************************)
(* The Position conversions on their own: Position::new, then to_string,   *)
(* then Position::try_from on the String that came out.                    *)
(***************************************************************************)
InitPosition ==
    /\ \E r \in 0 .. 7, f \in 0 .. 7 : position = Some(Position_new(r, f))
    /\ name = None
    /\ back = None
    /\ fen = <<>>
    /\ fen_error = "None"
    /\ board = GameState_empty.board
    /\ turn = GameState_empty.turn
    /\ castling_rights = GameState_empty.castling_rights
    /\ en_passant = GameState_empty.en_passant
    /\ halfmove_clock = GameState_empty.halfmove_clock
    /\ fullmove_number = GameState_empty.fullmove_number
    /\ captured_pieces = GameState_empty.captured_pieces
    /\ pc = "idle"
    /\ moves = <<>>
    /\ last = None
    /\ pre = None
    /\ plies = 0
    /\ panicked = FALSE

\* impl ToString for Position
PositionToString ==
    /\ position # None
    /\ name = None
    /\ name' = Some(Position_to_string(position[1]))
    /\ UNCHANGED << fen, fen_error, gs_vars, pc, moves, last, pre, plies,
                    panicked, position, back >>

\* impl TryFrom<&str> for Position
PositionTryFrom ==
    /\ ~panicked
    /\ name # None
    /\ back = None
    /\ IF Position_try_from_panics(name[1])
       THEN /\ panicked' = TRUE
            /\ UNCHANGED back
       ELSE /\ back' = Some(Position_try_from(name[1]))
            /\ UNCHANGED panicked
    /\ UNCHANGED << fen, fen_error, gs_vars, pc, moves, last, pre, plies,
                    position, name >>

NextPosition == PositionToString \/ PositionTryFrom

SpecPosition == InitPosition /\ [][NextPosition]_vars

(***************************************************************************)
(* A game from the standard start position: the caller parses StartFen and *)
(* plays, for both sides, moves it takes from legal_moves and finds in a   *)
(* small opening book, handing the turn over after every move.             *)
(***************************************************************************)
\* bound on the number of apply_move calls of one game
MaxBookPlies == 7

\* the book, as <<from, to>> pairs
WhiteBook ==
    { << Position_new(0, 6), Position_new(2, 5) >>,    \* Ng1-f3
      << Position_new(1, 6), Position_new(2, 6) >>,    \* g2-g3
      << Position_new(0, 5), Position_new(1, 6) >>,    \* Bf1-g2
      << Position_new(1, 1), Position_new(2, 1) >>,    \* b2-b3
      << Position_new(0, 2), Position_new(1, 1) >>,    \* Bc1-b2
      << Position_new(1, 1), Position_new(7, 7) >>,    \* Bb2xh8
      << Position_new(1, 7), Position_new(3, 7) >>,    \* h2-h4
      << Position_new(0, 7), Position_new(2, 7) >>,    \* Rh1-h3
      << Position_new(2, 7), Position_new(2, 0) >>,    \* Rh3-a3
      << Position_new(2, 0), Position_new(2, 1) >>,    \* Ra3-b3
      << Position_new(1, 4), Position_new(2, 4) >>,    \* e2-e3
      << Position_new(0, 4), Position_new(1, 4) >> }   \* Ke1-e2

BlackBook ==
    { << Position_new(7, 6), Position_new(5, 5) >>,    \* Ng8-f6
      << Position_new(5, 5), Position_new(7, 6) >>,    \* Nf6-g8
      << Position_new(6, 6), Position_new(5, 6) >>,    \* g7-g6
      << Position_new(7, 5), Position_new(6, 6) >>,    \* Bf8-g7
      << Position_new(6, 0), Position_new(5, 0) >> }   \* a7-a6

Book == WhiteBook \cup BlackBook

InitBook ==
    /\ fen = StartFen
    /\ fen_error = from_fen(fen).err
    /\ board = from_fen(fen).state.board
    /\ turn = from_fen(fen).state.turn
    /\ castling_rights = from_fen(fen).state.castling_rights
    /\ en_passant = from_fen(fen).state.en_passant
    /\ halfmove_clock = from_fen(fen).state.halfmove_clock
    /\ fullmove_number = from_fen(fen).state.fullmove_number
    /\ captured_pieces = from_fen(fen).state.captured_pieces
    /\ pc = "idle"
    /\ moves = <<>>
    /\ last = None
    /\ pre = None
    /\ plies = 0
    /\ panicked = FALSE
    /\ NoConversion

\* GameState::legal_moves, asked while the game is short of MaxBookPlies
BookLegalMoves ==
    /\ ~panicked
    /\ pc = "idle"
    /\ plies < MaxBookPlies
    /\ LET r == legal_moves(State) IN
       IF r.panicked
       THEN /\ panicked' = TRUE
            /\ UNCHANGED << pc, moves >>
       ELSE /\ moves' = r.moves
            /\ pc' = "listed"
            /\ UNCHANGED panicked
    /\ UNCHANGED << fen, fen_error, gs_vars, last, pre, plies, conv_vars >>

\* GameState::apply_move on the k-th listed move, if the book has it
BookApplyMove(k) ==
    /\ k \in 1 .. Len(moves)
    /\ << moves[k].from, moves[k].to >> \in Book
    /\ ApplyMove(k)

NextBook ==
    \/ BookLegalMoves
    \/ \E k \in 1 .. 256 : BookApplyMove(k)
    \/ HandTurn

SpecBook == InitBook /\ [][NextBook]_vars

(***************************************************************************)
(* The generator on a single knight or king: a caller builds a board with  *)
(* the piece on any square, at most one bishop near it, and asks get_moves *)
(* for the moves of the piece's color (test_get_moves_knight_layout,       *)
(* test_get_moves_king_layout).                                            *)
(***************************************************************************)
\* the squares at most two ranks and two files away from p
Nearby(p) ==
    {q \in Positions \ {p} :
        /\ rank(q) - rank(p) \in -2 .. 2
        /\ file(q) - file(p) \in -2 .. 2}

\* the boards with `piece` on p and nothing else, or one bishop near it
OffsetBoards(p, piece) ==
    {set(Board_empty, p, Some(piece))}
    \cup {set(set(Board_empty, p, Some(piece)), q, Some(Piece("Bishop", c))) :
              q \in Nearby(p), c \in PieceColors}

InitOffsets ==
    /\ fen = <<>>
    /\ fen_error = "None"
    /\ \E p \in Positions, kind \in {"Knight", "King"}, color \in PieceColors :
           /\ board \in OffsetBoards(p, Piece(kind, color))
           /\ turn = color
    /\ castling_rights = 0
    /\ en_passant = None
    /\ halfmove_clock = 0
    /\ fullmove_number = 0
    /\ captured_pieces = <<>>
    /\ pc = "placed"
    /\ moves = <<>>
    /\ last = None
    /\ pre = None
    /\ plies = 0
    /\ panicked = FALSE
    /\ NoConversion

\* get_moves(&state, color)
GetMoves ==
    /\ pc = "placed"
    /\ moves' = get_moves(State, turn)
    /\ pc' = "generated"
    /\ UNCHANGED << fen, fen_error, gs_vars, last, pre, plies, panicked, conv_vars >>

NextOffsets == GetMoves

SpecOffsets == InitOffsets /\ [][NextOffsets]_vars

TypeOK ==
    /\ fen_error = "None"
    /\ turn \in PieceColors
    /\ castling_rights \in 0 .. 15
    /\ pc \in {"idle", "listed", "applied"}
    /\ plies \in 0 .. MaxPlies

(***************************************************************************)
(* Vocabulary of the properties                                            *)
(***************************************************************************)
Abs(n) == IF n < 0 THEN -n ELSE n

Sign(n) == IF n < 0 THEN -1 ELSE IF n > 0 THEN 1 ELSE 0

\* every square strictly between a and b (on one line) is empty
PathClear(b, from, to) ==
    LET dr == Sign(rank(to) - rank(from))
        df == Sign(file(to) - file(from))
        n == IF Abs(rank(to) - rank(from)) > Abs(file(to) - file(from))
             THEN Abs(rank(to) - rank(from)) ELSE Abs(file(to) - file(from))
    IN \A j \in 1 .. (n - 1) :
           b[Position_new(rank(from) + dr * j, file(from) + df * j)] = None

\* the piece standing on p attacks sq under chess attack geometry
PieceAttacks(b, p, sq) ==
    LET piece == b[p][1]
        dr == rank(sq) - rank(p)
        df == file(sq) - file(p)
    IN CASE piece.kind = "Pawn" ->
                /\ dr = (IF piece.color = White THEN 1 ELSE -1)
                /\ Abs(df) = 1
         [] piece.kind = "Knight" ->
                {Abs(dr), Abs(df)} = {1, 2}
         [] piece.kind = "King" ->
                /\ p # sq
                /\ Abs(dr) <= 1
                /\ Abs(df) <= 1
         [] piece.kind = "Bishop" ->
                /\ p # sq
                /\ Abs(dr) = Abs(df)
                /\ PathClear(b, p, sq)
         [] piece.kind = "Rook" ->
                /\ p # sq
                /\ (dr = 0 \/ df = 0)
                /\ PathClear(b, p, sq)
         [] piece.kind = "Queen" ->
                /\ p # sq
                /\ (dr = 0 \/ df = 0 \/ Abs(dr) = Abs(df))
                /\ PathClear(b, p, sq)

\* some piece of color `by` attacks sq
Attacked(b, sq, by) ==
    \E p \in Positions : b[p] # None /\ b[p][1].color = by /\ PieceAttacks(b, p, sq)

\* the mover's king is attacked once m has been applied to a copy of s
KingAttackedAfter(s, m) ==
    \/ apply_move_panics(s, m)
    \/ is_in_check_panics(apply_move(s, m))
    \/ is_in_check(apply_move(s, m))

\* the check-safety rule of the filter for one pseudo-legal move
CheckSafe(s, m) ==
    IF m.type = "Castle"
    THEN /\ ~is_in_check(s)
         /\ ~square_attacked(s, m.rook_to)
         /\ ~KingAttackedAfter(s, m)
    ELSE ~KingAttackedAfter(s, m)

\* two move lists are equal, element by element
SameMoves(a, b) ==
    /\ Len(a) = Len(b)
    /\ \A k \in 1 .. Len(a) : a[k].type = b[k].type /\ a[k] = b[k]

\* the move list holds move m
HasMove(list, m) == \E k \in 1 .. Len(list) : list[k].type = m.type /\ list[k] = m

HasCastle(list) == \E k \in 1 .. Len(list) : list[k].type = "Castle"

\* the back rank and the home squares of a color
BackRank(color) == IF color = White THEN 0 ELSE 7
KingHome(color) == Position_new(BackRank(color), 4)
RookHome(color, side) == Position_new(BackRank(color), IF side = KingSide THEN 7 ELSE 0)

\* the squares strictly between the king and the rook of (color, side)
BetweenHome(color, side) ==
    IF side = KingSide
    THEN {Position_new(BackRank(color), 5), Position_new(BackRank(color), 6)}
    ELSE {Position_new(BackRank(color), 1), Position_new(BackRank(color), 2),
          Position_new(BackRank(color), 3)}

\* the side a castle move castles to, read off the king's target file
CastleSideOf(m) == IF file(m.to) = 6 THEN KingSide ELSE QueenSide

(***************************************************************************)
(* Properties                                                              *)
(***************************************************************************)
\* C1: no move returned by legal_moves leaves the mover's own king attacked:
\* after any returned move is applied to a copy of the state, the mover's king
\* square is not the destination of any opponent pseudo-legal move.
C1_NoMoveIntoCheck ==
    pc = "listed" =>
        \A k \in 1 .. Len(moves) : ~KingAttackedAfter(State, moves[k])

\* C2: legal_moves returns exactly the pseudo-legal moves of state.turn that
\* pass the check-safety rule (for a castle: king not in check, rook target not
\* attacked, and king safe after the simulated castle), in generation order.
C2_ExactlyTheSafeMoves ==
    pc = "listed" =>
        LET Safe(m) == CheckSafe(State, m) IN
        SameMoves(moves, SelectSeq(get_moves(State, turn), Safe))

\* C3: legal_moves never contains a castle whose passed-over square (the rook's
\* target) or landing square is attacked by an opposing piece under chess
\* attack geometry.
C3_NoCastleThroughAttack ==
    pc = "listed" =>
        \A k \in 1 .. Len(moves) :
            moves[k].type = "Castle" =>
                /\ ~Attacked(board, moves[k].rook_to, opposite(turn))
                /\ ~Attacked(board, moves[k].to, opposite(turn))

\* C4: when the side to move is in check, legal_moves contains no castle move.
C4_NoCastleOutOfCheck ==
    (pc = "listed" /\ is_in_check(State)) => ~HasCastle(moves)

\* C4 witness: legal_moves has returned for a state in check in which a castle
\* move was pseudo-legal.
C4_Witness ==
    /\ pc = "listed"
    /\ is_in_check(State)
    /\ HasCastle(get_moves(State, turn))

\* C5: for every color c, pseudo_legal_moves(state, c) holds a castle move for a
\* side only if c's own rights bit for that side is set and the squares between
\* c's king home and c's rook home on c's back rank are all empty.
C5_CastleNeedsRightsAndRoom ==
    \A c \in PieceColors :
        ~get_moves_panics(State, c) =>
            \A k \in 1 .. Len(get_moves(State, c)) :
                LET m == get_moves(State, c)[k] IN
                m.type = "Castle" =>
                    /\ can_castle(State, c, CastleSideOf(m))
                    /\ \A sq \in BetweenHome(c, CastleSideOf(m)) : board[sq] = None

\* C6: parsing the start position FEN gives turn White, castling rights 0b1111,
\* no en-passant target, halfmove clock 0, fullmove number 1, and legal_moves
\* returns exactly 20 moves: 8 single pawn pushes, 8 double pawn pushes and 4
\* knight moves, none of them a castle.
C6_StartPosition ==
    (fen = StartFen /\ plies = 0) =>
        /\ fen_error = "None"
        /\ turn = White
        /\ castling_rights = 15
        /\ en_passant = None
        /\ halfmove_clock = 0
        /\ fullmove_number = 1
        /\ ~panicked
        /\ pc = "listed" =>
              /\ Len(moves) = 20
              /\ Cardinality({k \in 1 .. Len(moves) :
                     moves[k].type = "Normal"
                     /\ board[moves[k].from] = Some(Piece("Pawn", White))}) = 8
              /\ Cardinality({k \in 1 .. Len(moves) :
                     moves[k].type = "DoublePawnPush"}) = 8
              /\ Cardinality({k \in 1 .. Len(moves) :
                     moves[k].type = "Normal"
                     /\ board[moves[k].from] = Some(Piece("Knight", White))}) = 4
              /\ ~HasCastle(moves)

\* C6 witness: legal_moves has returned for the parsed start position.
C6_Witness == fen = StartFen /\ plies = 0 /\ pc = "listed"

\* C7: when en_passant is Some(t), t is empty and a pawn of the moving color
\* stands on an adjacent file one rank short of t, the generator emits
\* EnPassant{from, to: t, captured} with captured on from's rank and t's file;
\* applying it empties from and captured, puts the pawn on t and appends the
\* pawn that stood on captured to captured_pieces.
EnPassantCase(c, from) ==
    /\ en_passant # None
    /\ board[en_passant[1]] = None
    /\ board[from] = Some(Piece("Pawn", c))
    /\ Abs(file(from) - file(en_passant[1])) = 1
    /\ rank(en_passant[1]) = rank(from) + (IF c = White THEN 1 ELSE -1)

C7_EnPassant ==
    /\ \A c \in PieceColors : \A from \in Positions :
          (EnPassantCase(c, from) /\ ~get_moves_panics(State, c)) =>
              LET t == en_passant[1]
                  m == EnPassant(from, t, Position_new(rank(from), file(t)))
              IN /\ HasMove(get_moves(State, c), m)
                 /\ board[m.captured] # None =>
                       LET after == apply_move(State, m) IN
                       /\ after.board[from] = None
                       /\ after.board[m.captured] = None
                       /\ after.board[t] = Some(Piece("Pawn", c))
                       /\ after.captured_pieces =
                              Append(captured_pieces, board[m.captured][1])
    /\ (last # None /\ last[1].type = "EnPassant") =>
          /\ last[1].captured = Position_new(rank(last[1].from), file(last[1].to))
          /\ last[1].captured # last[1].to
          /\ board[last[1].from] = None
          /\ board[last[1].captured] = None
          /\ board[last[1].to] = pre[1].board[last[1].from]
          /\ captured_pieces =
                 Append(pre[1].captured_pieces, pre[1].board[last[1].captured][1])

\* C7 witness: a generated en-passant capture has been applied.
C7_Witness ==
    /\ last # None
    /\ last[1].type = "EnPassant"
    /\ pre[1].en_passant = Some(last[1].to)
    /\ Len(captured_pieces) = Len(pre[1].captured_pieces) + 1

\* the last apply_move call moved a pawn or captured
LastResetsClock ==
    \/ last[1].type \in {"DoublePawnPush", "Promotion",
                        "Capture", "PromotionCapture", "EnPassant"}
    \/ /\ last[1].type = "Normal"
       /\ pre[1].board[last[1].from][1].kind = "Pawn"

\* C8: every pawn move and every capture resets halfmove_clock to 0, every
\* other move increments it by exactly 1, and is_50_move_rule() is true exactly
\* when halfmove_clock has reached 100.
C8_HalfmoveClock ==
    /\ last # None =>
          halfmove_clock =
              IF LastResetsClock THEN 0 ELSE pre[1].halfmove_clock + 1
    /\ is_50_move_rule(State) <=> halfmove_clock >= 100

\* C8 witness: a non-pawn, non-capture move has brought the clock from 99 to 100.
C8_Witness ==
    /\ last # None
    /\ ~LastResetsClock
    /\ pre[1].halfmove_clock = 99
    /\ halfmove_clock = 100
    /\ is_50_move_rule(State)

\* C9: after apply_move(m), en_passant is Some(s) iff m is a DoublePawnPush
\* with en_passant field s; after every other move it is None whatever it was
\* before, so a target never outlives the next apply_move.
C9_EnPassantLifetime ==
    last # None =>
        en_passant = IF last[1].type = "DoublePawnPush"
                     THEN Some(last[1].en_passant)
                     ELSE None

\* C9 witness: a move other than a double pawn push was applied to a state that
\* had an en-passant target.
C9_Witness ==
    /\ last # None
    /\ last[1].type # "DoublePawnPush"
    /\ pre[1].en_passant # None
    /\ en_passant = None

\* the piece the last apply_move call moved
LastMoved == pre[1].board[last[1].from][1]

\* C10: apply_move clears castling rights on home-square events: a king
\* leaving its home square clears both bits of its color, a rook leaving a
\* corner clears the bit of its color for that side, and a Capture or
\* PromotionCapture of a rook standing on its home corner clears that rook's
\* bit.
C10_RightsWaived ==
    last # None =>
        /\ (LastMoved.kind = "King" /\ last[1].from = KingHome(LastMoved.color)) =>
              /\ ~can_castle(State, LastMoved.color, KingSide)
              /\ ~can_castle(State, LastMoved.color, QueenSide)
        /\ \A side \in {KingSide, QueenSide} :
              (/\ LastMoved.kind = "Rook"
               /\ last[1].from \in {RookHome(White, side), RookHome(Black, side)}) =>
                  ~can_castle(State, LastMoved.color, side)
        /\ \A side \in {KingSide, QueenSide} :
              (/\ last[1].type \in {"Capture", "PromotionCapture"}
               /\ last[1].captured.kind = "Rook"
               /\ last[1].to = RookHome(last[1].captured.color, side)) =>
                  ~can_castle(State, last[1].captured.color, side)

\* C10 witness: a rook was captured on its home corner while its side still
\* held the right.
C10_Witness ==
    /\ last # None
    /\ last[1].type \in {"Capture", "PromotionCapture"}
    /\ last[1].captured.kind = "Rook"
    /\ \E side \in {KingSide, QueenSide} :
          /\ last[1].to = RookHome(last[1].captured.color, side)
          /\ can_castle(pre[1], last[1].captured.color, side)
          /\ LastMoved.kind \notin {"Rook", "King"}

\* is_in_check(s) agrees with chess attack geometry on the king of s.turn
CheckIsAttack(s) ==
    is_in_check(s) <=>
        Attacked(s.board, find_king(s.board, s.turn)[1], opposite(s.turn))

\* the moves of s's opponent that are pawn pushes, en-passant moves or castles
QuietKinds(s, m) ==
    \/ m.type \in {"DoublePawnPush", "Promotion", "EnPassant", "Castle"}
    \/ m.type = "Normal" /\ s.board[m.from][1].kind = "Pawn"

\* C11: is_in_check(state) is true exactly when some piece of the opposite
\* color attacks the square of state.turn's king under chess attack geometry;
\* opponent pawn pushes, en-passant moves and castle moves never land on the
\* king's square.  Checked where legal_moves has run: on its state, for either
\* color to move, and on every state it builds by applying a pseudo-legal move
\* to a copy.
C11_InCheckIsAttack ==
    pc = "listed" =>
        /\ \A c \in PieceColors :
               LET s == [State EXCEPT !.turn = c]
                   enemy_moves == get_moves(s, opposite(c))
               IN ~is_in_check_panics(s) =>
                      /\ CheckIsAttack(s)
                      /\ \A k \in 1 .. Len(enemy_moves) :
                            QuietKinds(s, enemy_moves[k]) =>
                                enemy_moves[k].to # find_king(s.board, c)[1]
        /\ LET own_moves == get_moves(State, turn) IN
           \A k \in 1 .. Len(own_moves) :
               (/\ ~apply_move_panics(State, own_moves[k])
                /\ ~is_in_check_panics(apply_move(State, own_moves[k])))
                   => CheckIsAttack(apply_move(State, own_moves[k]))

\* the kinds of the pieces of color `by` that attack sq
AttackerKinds(b, sq, by) ==
    {b[p][1].kind : p \in {q \in Positions :
                              b[q] # None /\ b[q][1].color = by /\ PieceAttacks(b, q, sq)}}

\* C11 witness: legal_moves has run on a state in which the king can step into
\* the attack of a pawn, into that of a knight and into that of the other king
C11_Witness ==
    /\ pc = "listed"
    /\ ~get_moves_panics(State, turn)
    /\ \A kind \in {"Pawn", "Knight", "King"} :
           \E k \in 1 .. Len(get_moves(State, turn)) :
               LET m == get_moves(State, turn)[k] IN
               /\ ~apply_move_panics(State, m)
               /\ ~is_in_check_panics(apply_move(State, m))
               /\ is_in_check(apply_move(State, m))
               /\ AttackerKinds(apply_move(State, m).board,
                                find_king(apply_move(State, m).board, turn)[1],
                                opposite(turn)) = {kind}

\* C12: no move returned by legal_moves (castle moves included) has a
\* destination square that holds a piece of the mover's own color.
C12_NoOwnPieceTaken ==
    pc = "listed" =>
        \A k \in 1 .. Len(moves) :
            \/ board[moves[k].to] = None
            \/ board[moves[k].to][1].color # turn

\* C12 witness: legal_moves has returned moves for a side that has a king, rook,
\* bishop, queen or knight standing next to one of its own pieces
C12_Witness ==
    /\ pc = "listed"
    /\ moves # <<>>
    /\ \E p \in Positions, q \in Positions :
           /\ board[p] # None /\ board[p][1].color = turn /\ board[p][1].kind # "Pawn"
           /\ board[q] # None /\ board[q][1].color = turn
           /\ p # q
           /\ Abs(rank(p) - rank(q)) <= 1 /\ Abs(file(p) - file(q)) <= 1

\* C18: applying Castle{from, to, rook_from, rook_to} leaves from and rook_from
\* empty, the king on to and the rook on rook_to, clears both castling-rights
\* bits of the king's color and leaves the other color's two bits unchanged,
\* increments halfmove_clock by 1, clears en_passant, and leaves
\* captured_pieces and every other square unchanged.
C18_CastleEffect ==
    (pc = "applied" /\ last[1].type = "Castle") =>
        LET m == last[1]
            s0 == pre[1]
            king == s0.board[m.from][1]
        IN /\ board[m.from] = None
           /\ board[m.rook_from] = None
           /\ board[m.to] = Some(king)
           /\ board[m.rook_to] = s0.board[m.rook_from]
           /\ \A p \in Positions \ {m.from, m.to, m.rook_from, m.rook_to} :
                  board[p] = s0.board[p]
           /\ castling_rights = (IF king.color = White
                                 THEN s0.castling_rights % 4
                                 ELSE (s0.castling_rights \div 4) * 4)
           /\ halfmove_clock = s0.halfmove_clock + 1
           /\ en_passant = None
           /\ captured_pieces = s0.captured_pieces
           /\ turn = s0.turn
           /\ fullmove_number = s0.fullmove_number

\* C18 witness: a castle was applied to a state in which the other color held a
\* castling right, and that right is still held
C18_Witness ==
    /\ pc = "applied"
    /\ last[1].type = "Castle"
    /\ pre[1].castling_rights % 4 # 0
    /\ castling_rights = pre[1].castling_rights % 4

\* C19: captured_pieces is an append-only log in capture order: apply_move
\* appends exactly the piece it removed from the board for Capture,
\* PromotionCapture and EnPassant, appends nothing for Normal, DoublePawnPush,
\* Promotion and Castle, and leaves the entries already logged as they were.
C19_CaptureLog ==
    pc = "applied" =>
        LET m == last[1]
            s0 == pre[1]
        IN CASE m.type \in {"Capture", "PromotionCapture"} ->
                   /\ s0.board[m.to] # None
                   /\ captured_pieces = Append(s0.captured_pieces, s0.board[m.to][1])
             [] m.type = "EnPassant" ->
                   /\ m.captured # m.to
                   /\ s0.board[m.captured] # None
                   /\ board[m.captured] = None
                   /\ captured_pieces = Append(s0.captured_pieces, s0.board[m.captured][1])
             [] OTHER ->
                   captured_pieces = s0.captured_pieces

\* C19 witness: a second capture has been logged behind the first
C19_Witness ==
    /\ pc = "applied"
    /\ Len(captured_pieces) = 2
    /\ Len(pre[1].captured_pieces) = 1

\* the squares a bishop, rook or queen on p sees along its directions
OnLine(kind, p, q) ==
    /\ p # q
    /\ \/ kind \in {"Bishop", "Queen"}
          /\ Abs(rank(q) - rank(p)) = Abs(file(q) - file(p))
       \/ kind \in {"Rook", "Queen"}
          /\ (rank(q) = rank(p) \/ file(q) = file(p))

\* the generator of the sliding piece `kind`
SliderMoves(kind, p, s, color) ==
    CASE kind = "Bishop" -> make_bischop_moves(p, s, color)
      [] kind = "Rook" -> make_rook_moves(p, s, color)
      [] kind = "Queen" -> make_queen_moves(p, s, color)

\* the moves generated for the slider on p are exactly its ray squares
ExactlyTheRays(s, p) ==
    LET piece == s.board[p][1]
        gm == SliderMoves(piece.kind, p, s, piece.color)
    IN /\ \A k \in 1 .. Len(gm) :
              /\ gm[k].from = p
              /\ OnLine(piece.kind, p, gm[k].to)
              /\ PathClear(s.board, p, gm[k].to)
              /\ IF s.board[gm[k].to] = None
                 THEN gm[k].type = "Normal"
                 ELSE /\ gm[k].type = "Capture"
                      /\ s.board[gm[k].to][1].color # piece.color
                      /\ gm[k].captured = s.board[gm[k].to][1]
       /\ \A q \in Positions :
              (/\ OnLine(piece.kind, p, q)
               /\ PathClear(s.board, p, q)
               /\ (s.board[q] = None \/ s.board[q][1].color # piece.color))
                  => Cardinality({k \in 1 .. Len(gm) : gm[k].to = q}) = 1

\* C20: for a bishop, rook or queen the generated moves are exactly the ray
\* squares: every empty square up to the first occupied one yields Normal, the
\* first occupied square yields Capture (carrying that piece) only if it holds
\* an enemy piece, nothing beyond it is generated, nothing is generated twice,
\* and no ray wraps around a board edge.  Checked for the sliding pieces of
\* either color in every state legal_moves has returned for.
C20_SlidingMoves ==
    pc = "listed" =>
        \A p \in Positions :
            (board[p] # None /\ board[p][1].kind \in {"Bishop", "Rook", "Queen"})
                => ExactlyTheRays(State, p)

\* C20 witness: legal_moves has returned for a state in which a sliding piece
\* has a capture, is blocked by a piece of its own color, and has a ray that
\* runs to the board edge
C20_Witness ==
    /\ pc = "listed"
    /\ \E p \in Positions :
           /\ board[p] # None
           /\ board[p][1].kind \in {"Bishop", "Rook", "Queen"}
           /\ \E q \in Positions :
                  /\ OnLine(board[p][1].kind, p, q) /\ PathClear(board, p, q)
                  /\ board[q] # None /\ board[q][1].color # board[p][1].color
           /\ \E q \in Positions :
                  /\ OnLine(board[p][1].kind, p, q) /\ PathClear(board, p, q)
                  /\ board[q] # None /\ board[q][1].color = board[p][1].color
           /\ \E q \in Positions :
                  /\ OnLine(board[p][1].kind, p, q) /\ PathClear(board, p, q)
                  /\ board[q] = None
                  /\ (rank(q) \in {0, 7} \/ file(q) \in {0, 7})

(***************************************************************************)
(* Vocabulary of the FEN properties: what a FEN text says, read off the    *)
(* text itself                                                             *)
(***************************************************************************)
\* from_fen has been called on the text
FromFenCalled == pc # "text"

\* the '/'-separated groups of a placement field (a group may be empty)
RankGroups(placement) ==
    LET slashes == {k \in 1 .. Len(placement) : placement[k] = "/"}
        n == Cardinality(slashes) + 1
        bound(j) == IF j = 0 THEN 0
                    ELSE IF j = n THEN Len(placement) + 1
                    ELSE CHOOSE k \in slashes : Cardinality({x \in slashes : x < k}) = j - 1
    IN [j \in 1 .. n |-> SubSeq(placement, bound(j - 1) + 1, bound(j) - 1)]

\* an empty-square count 1..8, and its value
IsCount(c) == \E d \in 1 .. 8 : RankChars[d] = c
CountOf(c) == CHOOSE d \in 1 .. 8 : RankChars[d] = c

\* the files a group describes: 1 per letter, n per count n
FilesIn(group) ==
    Len(group)
    + Cardinality({kj \in (1 .. Len(group)) \X (1 .. 7) :
                      IsCount(group[kj[1]]) /\ kj[2] < CountOf(group[kj[1]])})

\* the file the k-th character of a group starts at
FilesBefore(group, k) == FilesIn(SubSeq(group, 1, k - 1))

PieceLetters == {"P", "N", "B", "R", "Q", "K", "p", "n", "b", "r", "q", "k"}

\* the placement field does not describe exactly 8 ranks of at most 8 files
BadRankCount(placement) == Len(RankGroups(placement)) # 8
BadFileCount(placement) ==
    \E g \in 1 .. Len(RankGroups(placement)) : FilesIn(RankGroups(placement)[g]) > 8

\* C13: from_fen returns an error value whenever the piece-placement field does
\* not describe exactly 8 ranks or some rank describes more than 8 files, and
\* then no GameState is produced; when nothing else is wrong with the text the
\* error is InvalidFileCount for an overlong rank among the first eight and
\* InvalidRankCount for a wrong number of ranks.
C13_BadPlacementIsError ==
    (FromFenCalled /\ split_whitespace(fen) # <<>>) =>
        LET placement == split_whitespace(fen)[1]
            groups == RankGroups(placement)
        IN (BadRankCount(placement) \/ BadFileCount(placement)) =>
               /\ ~panicked
               /\ fen_error # "None"
               /\ pc = "rejected"
               /\ State = GameState_empty
               /\ (/\ lex_fen_str(fen).err = "None"
                   /\ \A k \in 1 .. Len(placement) :
                          placement[k] \in PieceLetters \cup {"/"} \/ IsCount(placement[k]))
                  => fen_error =
                         IF \E g \in 1 .. Min(8, Len(groups)) : FilesIn(groups[g]) > 8
                         THEN "InvalidFileCount"
                         ELSE "InvalidRankCount"

\* the placement with every short rank padded to 8 files by a final count
RECURSIVE PadFrom(_, _)
PadFrom(groups, g) ==
    IF g > Len(groups) THEN <<>>
    ELSE groups[g]
         \o (IF FilesIn(groups[g]) < 8
             THEN <<RankChars[8 - FilesIn(groups[g])]>> ELSE <<>>)
         \o (IF g < Len(groups) THEN <<"/">> ELSE <<>>)
         \o PadFrom(groups, g + 1)

PadPlacement(placement) == PadFrom(RankGroups(placement), 1)

\* some rank of the placement stops short of 8 files
HasShortRank(placement) ==
    \E g \in 1 .. Len(RankGroups(placement)) : FilesIn(RankGroups(placement)[g]) < 8

\* C14: trailing empty-square counts are optional: a text whose ranks stop early
\* (a rank may even be the empty string) parses to the GameState that the text
\* with every rank padded to 8 files by a final count parses to.
C14_TrailingCountOptional ==
    pc = "idle" =>
        LET f == split_whitespace(fen)
            padded == from_fen(FenOf(PadPlacement(f[1]), f[2], f[3], f[4], f[5], f[6]))
        IN /\ ~padded.panicked
           /\ padded.err = "None"
           /\ padded.state = State

\* C14 witness: a text with a rank that stops early, and one that is empty, has
\* been parsed to a board that holds pieces
C14_Witness ==
    /\ pc = "idle"
    /\ HasShortRank(split_whitespace(fen)[1])
    /\ \E g \in 1 .. 8 : RankGroups(split_whitespace(fen)[1])[g] = <<>>
    /\ \E p \in Positions : board[p] # None

\* a clock field is written as a non-negative integer
IsNumber(field) ==
    /\ field # <<>>
    /\ \A k \in 1 .. Len(field) :
           IsDigit(field[k]) \/ (k = 1 /\ field[k] = "+" /\ Len(field) > 1)

\* a field names one of the squares a1..h8
IsSquareName(field) ==
    /\ Len(field) = 2
    /\ \E f \in 1 .. 8 : FileChars[f] = field[1]
    /\ \E r \in 1 .. 8 : RankChars[r] = field[2]

\* the malformed shapes of a FEN text
Malformed(text) ==
    LET f == split_whitespace(text) IN
    \/ Len(f) < 6
    \/ f[2] \notin {<<"w">>, <<"b">>}
    \/ f[3] # <<"-">> /\ \E k \in 1 .. Len(f[3]) : f[3][k] \notin {"K", "Q", "k", "q"}
    \/ f[4] # <<"-">> /\ ~IsSquareName(f[4])
    \/ \E k \in 1 .. Len(f[1]) : f[1][k] \notin PieceLetters \cup {"/"} /\ ~IsCount(f[1][k])
    \/ ~IsNumber(f[5])
    \/ ~IsNumber(f[6])

\* C15: from_fen always returns either a GameState or a FENParserError value (it
\* never fails fatally), and it returns an error for each malformed shape: fewer
\* than six fields, a side to move other than "w" or "b", a castling field other
\* than "-" with a character outside KQkq, an en-passant field that is neither
\* "-" nor a square, a placement character that is no '/', count or piece
\* letter, a clock field that is no non-negative integer.
C15_ErrorsAreValues ==
    FromFenCalled =>
        /\ ~panicked
        /\ Malformed(fen) => fen_error # "None"

\* C16: the algebraic conversions of Position are inverse on all 64 squares:
\* Position::new(r, f).to_string() is the file letter 'a'+f followed by the rank
\* digit '1'+r, and Position::try_from of that String gives the Position back.
C16_PositionRoundTrip ==
    /\ name # None =>
           name[1] = << FileChars[file(position[1]) + 1], RankChars[rank(position[1]) + 1] >>
    /\ back # None => back[1] = position

\* the piece a placement letter stands for
KindNames == <<"Pawn", "Knight", "Bishop", "Rook", "Queen", "King">>
UpperLetters == <<"P", "N", "B", "R", "Q", "K">>
LowerLetters == <<"p", "n", "b", "r", "q", "k">>

LetterPiece(c) ==
    IF \E i \in 1 .. 6 : UpperLetters[i] = c
    THEN Piece(KindNames[CHOOSE i \in 1 .. 6 : UpperLetters[i] = c], White)
    ELSE Piece(KindNames[CHOOSE i \in 1 .. 6 : LowerLetters[i] = c], Black)

\* what the placement says about square p: the i-th group (i = 0 first) is rank
\* 7-i, and a letter sits on the file the characters before it add up to
ExpectedSquare(groups, p) ==
    LET group == groups[8 - rank(p)]
        hits == {k \in 1 .. Len(group) :
                    ~IsCount(group[k]) /\ FilesBefore(group, k) = file(p)}
    IN IF hits = {} THEN None ELSE Some(LetterPiece(group[CHOOSE k \in hits : TRUE]))

ExpectedRights(field) ==
    LET Has(c) == \E k \in 1 .. Len(field) : field[k] = c IN
    (IF Has("K") THEN 8 ELSE 0) + (IF Has("Q") THEN 4 ELSE 0)
    + (IF Has("k") THEN 2 ELSE 0) + (IF Has("q") THEN 1 ELSE 0)

ExpectedEnPassant(field) ==
    IF field = <<"-">> THEN None
    ELSE Some(8 * ((CHOOSE r \in 1 .. 8 : RankChars[r] = field[2]) - 1)
              + (CHOOSE f \in 1 .. 8 : FileChars[f] = field[1]) - 1)

\* the number a clock field writes
RECURSIVE Decimal(_)
Decimal(field) ==
    IF field = <<>> \/ field = <<"+">> THEN 0
    ELSE 10 * Decimal(SubSeq(field, 1, Len(field) - 1))
         + (CHOOSE d \in 0 .. 9 : DigitChars[d + 1] = field[Len(field)])

\* C17: from_fen maps the placement text onto the board by the flat index
\* rank*8+file: the i-th group fills rank 7-i, files advance by 1 per letter
\* and by n per count n, uppercase is White and lowercase Black, every square
\* not named is empty; the other fields set turn, the castling bits (K=8, Q=4,
\* k=2, q=1, in any order), the en-passant square and the two clocks.
C17_FenMapping ==
    pc = "idle" =>
        LET f == split_whitespace(fen)
            groups == RankGroups(f[1])
        IN /\ \A p \in Positions : board[p] = ExpectedSquare(groups, p)
           /\ turn = (IF f[2] = <<"w">> THEN White ELSE Black)
           /\ castling_rights = ExpectedRights(f[3])
           /\ en_passant = ExpectedEnPassant(f[4])
           /\ halfmove_clock = Decimal(f[5])
           /\ fullmove_number = Decimal(f[6])
           /\ captured_pieces = <<>>

\* C17 witness: a text with pieces of both colors, Black to move, the rights
\* written "Qk", an en-passant square and non-zero clocks has been parsed
C17_Witness ==
    /\ pc = "idle"
    /\ turn = Black
    /\ castling_rights = 6
    /\ en_passant = Some(20)
    /\ halfmove_clock = 49
    /\ fullmove_number = 30
    /\ \E p \in Positions, q \in Positions :
           /\ board[p] # None /\ board[p][1].color = White
           /\ board[q] # None /\ board[q][1].color = Black

(***************************************************************************)
(* Pawn moves                                                              *)
(***************************************************************************)
\* the rank direction a pawn of `color` walks in, its start rank and the rank
\* it promotes on
Forward(color) == IF color = White THEN 1 ELSE -1
StartRank(color) == IF color = White THEN 1 ELSE 6
PromotionRank(color) == IF color = White THEN 7 ELSE 0

\* the square n ranks ahead of p for a pawn of `color`
Ahead(color, p, n) == Position_new(rank(p) + n * Forward(color), file(p))

\* the number of entries of `list` equal to m
CountOf_move(list, m) ==
    Cardinality({k \in 1 .. Len(list) : list[k].type = m.type /\ list[k] = m})

\* the moves generated for the pawn on p
PawnMovesOf(s, p) ==
    get_moves_for_square(s.board[p], p, s, s.board[p][1].color)

\* the forward moves generated for the pawn on p are the ones the rules give
ForwardMovesRight(s, p) ==
    LET color == s.board[p][1].color
        one == Ahead(color, p, 1)
        two == Ahead(color, p, 2)
        pm == PawnMovesOf(s, p)
        single == s.board[one] = None /\ rank(one) # PromotionRank(color)
        double == /\ rank(p) = StartRank(color)
                  /\ s.board[one] = None
                  /\ s.board[two] = None
    IN /\ CountOf_move(pm, Normal(p, one)) = (IF single THEN 1 ELSE 0)
       /\ \A k \in 1 .. Len(pm) :
              /\ pm[k].from = p
              /\ pm[k].type = "Normal" => pm[k].to = one
              /\ pm[k].type = "DoublePawnPush" =>
                     /\ double
                     /\ pm[k].to = two
                     /\ pm[k].en_passant = one
                     /\ CountOf_move(pm, pm[k]) = 1
              /\ file(pm[k].to) = file(p) =>
                     /\ s.board[pm[k].to] = None
                     /\ pm[k].type \in {"Normal", "DoublePawnPush", "Promotion"}
              /\ pm[k].type \in {"Normal", "DoublePawnPush", "Promotion"} =>
                     file(pm[k].to) = file(p)
       /\ double => \E k \in 1 .. Len(pm) : pm[k].type = "DoublePawnPush"

\* the pawns of state s that stand short of their promotion rank
PawnsOf(s) ==
    {p \in Positions :
        /\ s.board[p] # None
        /\ s.board[p][1].kind = "Pawn"
        /\ rank(p) # PromotionRank(s.board[p][1].color)}

\* C21: a pawn's forward moves are exactly these: a Normal single push iff the
\* square directly ahead is empty and not on the promotion rank; a
\* DoublePawnPush iff the pawn stands on its color's start rank (1 for White,
\* 6 for Black) and the squares one and two ahead are both empty, its
\* en_passant field naming the skipped square; no pawn move goes straight
\* ahead onto an occupied square.  Checked for the pawns of either color in
\* every state legal_moves has returned for.
C21_PawnPushes ==
    pc = "listed" => \A p \in PawnsOf(State) : ForwardMovesRight(State, p)

\* C21 witness: legal_moves has returned for a state in which one pawn has its
\* double push and another start-rank pawn is blocked directly ahead with the
\* square two ahead empty
C21_Witness ==
    /\ pc = "listed"
    /\ \E p \in PawnsOf(State) :
           \E k \in 1 .. Len(PawnMovesOf(State, p)) :
               PawnMovesOf(State, p)[k].type = "DoublePawnPush"
    /\ \E p \in PawnsOf(State) :
           /\ rank(p) = StartRank(board[p][1].color)
           /\ board[Ahead(board[p][1].color, p, 1)] # None
           /\ board[Ahead(board[p][1].color, p, 2)] = None

\* the kinds a pawn promotes to
PromotedKinds == {"Queen", "Rook", "Bishop", "Knight"}

\* the squares the pawn on p can push or capture onto: the square ahead if it
\* is empty, the two diagonal squares ahead if they hold an enemy piece
PawnTargets(s, p) ==
    LET color == s.board[p][1].color IN
    {q \in Positions :
        /\ rank(q) = rank(p) + Forward(color)
        /\ \/ file(q) = file(p) /\ s.board[q] = None
           \/ /\ Abs(file(q) - file(p)) = 1
              /\ s.board[q] # None
              /\ s.board[q][1].color # color}

\* the moves generated for the pawn on p promote exactly on the last rank
PromotionsRight(s, p) ==
    LET color == s.board[p][1].color
        pm == PawnMovesOf(s, p)
    IN /\ \A k \in 1 .. Len(pm) :
              /\ (pm[k].type \in {"Promotion", "PromotionCapture"})
                     <=> (rank(pm[k].to) = PromotionRank(color))
              /\ pm[k].type \in {"Promotion", "PromotionCapture"} =>
                     /\ pm[k].to \in PawnTargets(s, p)
                     /\ pm[k].promoted.color = color
                     /\ pm[k].promoted.kind \in PromotedKinds
              /\ pm[k].type = "Promotion" => s.board[pm[k].to] = None
              /\ pm[k].type = "PromotionCapture" =>
                     /\ s.board[pm[k].to] # None
                     /\ pm[k].captured = s.board[pm[k].to][1]
       /\ \A q \in PawnTargets(s, p) :
              rank(q) = PromotionRank(color) =>
                  /\ Cardinality({k \in 1 .. Len(pm) : pm[k].to = q}) = 4
                  /\ \A kind \in PromotedKinds :
                         Cardinality({k \in 1 .. Len(pm) :
                             /\ pm[k].to = q
                             /\ pm[k].type \in {"Promotion", "PromotionCapture"}
                             /\ pm[k].promoted = Piece(kind, color)}) = 1

\* C22: every pawn push or diagonal capture that lands on the color's
\* promotion rank (7 for White, 0 for Black) is generated as exactly four
\* moves, Promotion (push) or PromotionCapture (capture) with promoted piece
\* Queen, Rook, Bishop and Knight of the pawn's color, never as Normal or
\* Capture; a pawn move to any other rank is never a Promotion variant.
\* Checked for the pawns of either color in every state legal_moves has
\* returned for.
C22_Promotions ==
    pc = "listed" => \A p \in PawnsOf(State) : PromotionsRight(State, p)

\* C22 witness: legal_moves has returned for a state in which one pawn can
\* reach its promotion rank both by a push and by a capture, and the list
\* holds both a Promotion and a PromotionCapture
C22_Witness ==
    /\ pc = "listed"
    /\ \E p \in PawnsOf(State) :
           /\ \E q \in PawnTargets(State, p) :
                  rank(q) = PromotionRank(board[p][1].color) /\ board[q] = None
           /\ \E q \in PawnTargets(State, p) :
                  rank(q) = PromotionRank(board[p][1].color) /\ board[q] # None
    /\ \E k \in 1 .. Len(moves) : moves[k].type = "Promotion"
    /\ \E k \in 1 .. Len(moves) : moves[k].type = "PromotionCapture"

\* C23: applying Promotion or PromotionCapture leaves `from` empty and puts
\* the promoted piece, never the pawn, on `to`; PromotionCapture also appends
\* the captured piece (the one that stood on `to`) to captured_pieces and
\* Promotion appends nothing; both reset halfmove_clock to 0 and leave every
\* other square unchanged.
C23_PromotionEffect ==
    (pc = "applied" /\ last[1].type \in {"Promotion", "PromotionCapture"}) =>
        LET m == last[1]
            s0 == pre[1]
        IN /\ s0.board[m.from] # None
           /\ s0.board[m.from][1].kind = "Pawn"
           /\ board[m.from] = None
           /\ board[m.to] = Some(m.promoted)
           /\ m.promoted.kind \in PromotedKinds
           /\ m.promoted.color = s0.board[m.from][1].color
           /\ \A q \in Positions \ {m.from, m.to} : board[q] = s0.board[q]
           /\ halfmove_clock = 0
           /\ IF m.type = "PromotionCapture"
              THEN /\ s0.board[m.to] # None
                   /\ m.captured = s0.board[m.to][1]
                   /\ captured_pieces = Append(s0.captured_pieces, m.captured)
              ELSE captured_pieces = s0.captured_pieces

\* C23 witness: a pawn has just promoted to a knight by capturing, and the
\* capture is the newest entry of the log
C23_Witness ==
    /\ pc = "applied"
    /\ last[1].type = "PromotionCapture"
    /\ last[1].promoted.kind = "Knight"
    /\ board[last[1].to] = Some(last[1].promoted)
    /\ Len(captured_pieces) = Len(pre[1].captured_pieces) + 1

(***************************************************************************)
(* Knight and king moves                                                    *)
(***************************************************************************)
\* q is a knight's jump, or a king's step, away from p on the board
Reaches(kind, p, q) ==
    LET dr == Abs(rank(q) - rank(p))
        df == Abs(file(q) - file(p))
    IN IF kind = "Knight"
       THEN (dr = 1 /\ df = 2) \/ (dr = 2 /\ df = 1)
       ELSE p # q /\ dr <= 1 /\ df <= 1

\* the square of the knight or king the board was built around
OffsetSquare ==
    CHOOSE p \in Positions :
        board[p] # None /\ board[p][1].kind \in {"Knight", "King"}

\* the indexes of the generated moves that start on p
MovesFrom(p) == {k \in 1 .. Len(moves) : moves[k].from = p}

\* C24: for a knight or king on any square the generated moves are exactly
\* the on-board offsets of the piece ((+-1,+-2),(+-2,+-1) for a knight, the 8
\* neighbours for a king), with no wrap-around over a board edge: an empty
\* target yields one Normal, an enemy-occupied target one Capture carrying
\* that piece, a friendly-occupied target nothing; on an otherwise empty
\* board the number of moves is the number of on-board offsets (2, 3, 4, 6 or
\* 8 for a knight; 3, 5 or 8 for a king).
C24_OffsetMoves ==
    pc = "generated" =>
        LET p == OffsetSquare
            piece == board[p][1]
            targets == {q \in Positions : Reaches(piece.kind, p, q)}
        IN /\ \A k \in MovesFrom(p) :
                  /\ moves[k].to \in targets
                  /\ IF board[moves[k].to] = None
                     THEN moves[k].type = "Normal"
                     ELSE /\ moves[k].type = "Capture"
                          /\ board[moves[k].to][1].color # piece.color
                          /\ moves[k].captured = board[moves[k].to][1]
           /\ \A q \in targets :
                  Cardinality({k \in MovesFrom(p) : moves[k].to = q})
                      = (IF board[q] # None /\ board[q][1].color = piece.color
                         THEN 0 ELSE 1)
           /\ (\A q \in Positions \ {p} : board[q] = None) =>
                  /\ Len(moves) = Cardinality(targets)
                  /\ Len(moves) \in (IF piece.kind = "Knight"
                                     THEN {2, 3, 4, 6, 8} ELSE {3, 5, 8})

\* C24 witness: the moves were generated for a knight on the h-file that has
\* an enemy bishop on one of its targets and a capture of it in the list
C24_Witness ==
    /\ pc = "generated"
    /\ board[OffsetSquare][1].kind = "Knight"
    /\ file(OffsetSquare) = 7
    /\ \E k \in MovesFrom(OffsetSquare) :
           /\ moves[k].type = "Capture"
           /\ moves[k].captured.kind = "Bishop"
    /\ Cardinality(MovesFrom(OffsetSquare)) < 8

(***************************************************************************)
(* Games from the start position                                           *)
(***************************************************************************)
\* C25: legal_moves returns normally (no out-of-range list or board index, no
\* access to a piece on an empty square) in every state reachable from the
\* standard start position by applying moves taken from legal_moves and
\* handing the turn over, states with pseudo-legal castle moves that satisfy
\* the castle preconditions included.
C25_LegalMovesReturns ==
    ~panicked

\* C26: a castle move synthesized for Black stays on Black's back rank (rank
\* index 7): kingside is king (7,4) to (7,6) with rook (7,7) to (7,5),
\* queenside is king (7,4) to (7,2) with rook (7,0) to (7,3), the mirror of
\* White's rank-0 moves, so that no square of a Black castle is on rank 0.
C26_BlackCastleOnBackRank ==
    LET cm == make_castle_moves(State, Black) IN
    \A k \in 1 .. Len(cm) :
        /\ cm[k].from = Position_new(7, 4)
        /\ \/ /\ cm[k].to = Position_new(7, 6)
              /\ cm[k].rook_from = Position_new(7, 7)
              /\ cm[k].rook_to = Position_new(7, 5)
           \/ /\ cm[k].to = Position_new(7, 2)
              /\ cm[k].rook_from = Position_new(7, 0)
              /\ cm[k].rook_to = Position_new(7, 3)

\* the castling right of `color` on `side` is held in the rights word
Holds(rights, color, side) == HasBit(rights, castle_mask(color, side))

\* the move m applied to state s0 gives `color` a reason to lose its right on
\* `side`: its king moved or castled, or its rook left the home corner of
\* that side, or was captured there
WaivedBy(s0, m, color, side) ==
    \/ s0.board[m.from] = Some(Piece("King", color))
    \/ /\ s0.board[m.from] = Some(Piece("Rook", color))
       /\ m.from = RookHome(color, side)
    \/ /\ m.type \in {"Capture", "PromotionCapture"}
       /\ m.to = RookHome(color, side)
       /\ s0.board[m.to] = Some(Piece("Rook", color))

\* C27: apply_move changes castling_rights only by clearing bits, and clears a
\* color's bit only when that color's king moved or castled, or that color's
\* rook left, or was captured on, the matching home corner (a1/h1 for White,
\* a8/h8 for Black); every other move, a rook leaving or captured on another
\* square of the a- or h-file included, leaves castling_rights unchanged.
C27_RightsFrame ==
    pc = "applied" =>
        \A color \in PieceColors, side \in {KingSide, QueenSide} :
            /\ Holds(castling_rights, color, side)
                   => Holds(pre[1].castling_rights, color, side)
            /\ (/\ Holds(pre[1].castling_rights, color, side)
                /\ ~Holds(castling_rights, color, side))
                   => WaivedBy(pre[1], last[1], color, side)

\* every castling right that is held has its king and rook at home
RightsMeanHome(s) ==
    \A color \in PieceColors, side \in {KingSide, QueenSide} :
        Holds(s.castling_rights, color, side) =>
            /\ s.board[KingHome(color)] = Some(Piece("King", color))
            /\ s.board[RookHome(color, side)] = Some(Piece("Rook", color))

\* every castle generated for the side to move starts from its king and
\* from a rook of its own
CastlesFindPieces(s) ==
    LET cm == make_castle_moves(s, s.turn) IN
    \A k \in 1 .. Len(cm) :
        /\ s.board[cm[k].from] = Some(Piece("King", s.turn))
        /\ s.board[cm[k].rook_from] = Some(Piece("Rook", s.turn))

\* C28: in every state reachable from the standard start position by applying
\* moves taken from legal_moves with the turn alternating, a set
\* castling-rights bit implies that the king and the rook of that color and
\* side stand on their home squares (e1 with h1/a1, e8 with h8/a8), so that a
\* generated castle move finds its king on `from` and its own rook on
\* `rook_from`.
C28_RightsMeanHome ==
    RightsMeanHome(State) /\ CastlesFindPieces(State)

\* C29: apply_move never changes turn or fullmove_number, whatever the move
\* variant: the side to move and the move number are the same after the call
\* as before it, so the state after the call still names the color of the
\* piece that moved as the side to move, and is_in_check on it looks at the
\* mover's king.
C29_TurnUntouched ==
    pc = "applied" =>
        /\ turn = pre[1].turn
        /\ fullmove_number = pre[1].fullmove_number
        /\ board[last[1].to] # None
        /\ board[last[1].to][1].color = turn

\* C29 witness: Black has answered White's move with a double pawn push and
\* the turn is still Black's
C29_Witness ==
    /\ pc = "applied"
    /\ plies = 2
    /\ last[1].type = "DoublePawnPush"
    /\ pre[1].turn = Black
    /\ turn = Black

(***************************************************************************)
(* Material                                                                *)
(***************************************************************************)
\* the number of pieces on board b
PieceCount(b) == Cardinality({p \in Positions : b[p] # None})

\* the square whose piece the move m takes off the board
CapturedSquare(m) == IF m.type = "EnPassant" THEN m.captured ELSE m.to

\* applying the generated move m to state s conserves material
Conserves(s, m) ==
    LET s1 == apply_move(s, m) IN
    /\ PieceCount(s1.board) + Len(s1.captured_pieces)
           = PieceCount(s.board) + Len(s.captured_pieces)
    /\ IF m.type \in {"Capture", "PromotionCapture", "EnPassant"}
       THEN /\ PieceCount(s1.board) = PieceCount(s.board) - 1
            /\ s.board[CapturedSquare(m)] # None
            /\ s1.captured_pieces
                   = Append(s.captured_pieces, s.board[CapturedSquare(m)][1])
       ELSE /\ PieceCount(s1.board) = PieceCount(s.board)
            /\ s1.captured_pieces = s.captured_pieces

\* C30: material is conserved by generated moves: for every move the
\* generator produces for the side to move, the number of pieces on the board
\* plus the length of captured_pieces is the same after apply_move as before;
\* the board loses exactly one piece on Capture, PromotionCapture and
\* EnPassant and none otherwise, and the piece appended to captured_pieces is
\* the one that stood on the captured square.  Checked for all pseudo-legal
\* moves of every state legal_moves has returned for, wherever apply_move
\* returns.
C30_MaterialConserved ==
    pc = "listed" =>
        LET gm == get_moves(State, turn) IN
        \A k \in 1 .. Len(gm) :
            ~apply_move_panics(State, gm[k]) => Conserves(State, gm[k])

\* C30 witness: legal_moves has returned for a state whose moves hold an
\* en-passant capture, which takes a pawn off a square other than the one the
\* capturing pawn lands on
C30_Witness ==
    /\ pc = "listed"
    /\ \E k \in 1 .. Len(moves) :
           /\ moves[k].type = "EnPassant"
           /\ board[moves[k].to] = None
           /\ board[moves[k].captured] # None
           /\ PieceCount(apply_move(State, moves[k]).board) = PieceCount(board) - 1

====
